---- MODULE Spec2Model ----
(***************************************************************************)
(* A model of yaml_update (DND-IT/action-yaml-update): the document editor  *)
(* of src/yaml_update/updater.py.                                           *)
(*                                                                          *)
(* Texts (Python str) are sequences of one-character strings, so that       *)
(* strip, lower, split, endswith, int() and float() are computed on the     *)
(* characters.  A YAML node is a record                                     *)
(*     [kind, s, n, items]                                                  *)
(* kind  : "null" "bool" "int" "float" "str" "map" "seq"                    *)
(* s     : the text of a str; for a float the tag <<>> (finite), "nan",     *)
(*         "inf" or "-inf"                                                  *)
(* n     : the value of an int, 0/1 of a bool, the value of a finite float  *)
(*         in tenths                                                        *)
(* items : the ordered entries [k, v] of a map (k the key text) or of a     *)
(*         seq (k = <<>>)                                                   *)
(***************************************************************************)
EXTENDS Integers, Sequences, FiniteSets, TLC

VARIABLES
    op,          \* which entry point of updater.py is being run
    status,      \* "ready", "running", "done" (returned), "error" (raised)
    err,         \* the exception raised: its kind, "none" when none
    data,        \* the document that is updated in place
    data0,       \* the document as it was loaded
    keys,        \* update_keys: the key paths
    values,      \* update_keys: the new values (texts)
    i,           \* update_keys: pairs processed so far
    changes,     \* the change records appended so far
    last,        \* update_keys: what the last loop iteration read and computed
    image_name,  \* update_image_tags: the image name
    new_tag,     \* update_image_tags / _coerce_value: the new text
    existing,    \* _coerce_value: the existing value
    coerced,     \* _coerce_value: the value returned
    content,     \* load_yaml: the text of the file
    entries,     \* load_yaml: the lines of the loaded document, with their parents
    indent,      \* load_yaml: the indentation configured on the serializer
    dumped,      \* dump_yaml: the text written
    environ,     \* main: the INPUT_* and GITHUB_* environment variables
    inputs,      \* main: the ActionInputs parse_inputs returned
    fs,          \* main: the files, by path
    world,       \* main: what git and the GitHub API answer
    pc,          \* main: where the run is
    file_no,     \* main: files of inputs.files taken by the loop so far
    all_changes, \* main: all_changes
    changed_files, \* main: changed_files
    all_diffs,   \* main: all_diffs
    outputs,     \* main: the set_output calls, in order
    log,         \* main: the log_error, log_warning and log_group calls, in order
    calls,       \* main: the file writes, git_ops and github_api calls, in order
    rc,          \* main: the value returned, -1 before it returns
    raised,      \* main: the exception that escaped main, "" when none
    diff_path,   \* diff_yaml: the path of the file
    diff,        \* diff_yaml: the text returned
    args,        \* commit_and_push: its arguments files, message, branch
    git,         \* commit_and_push: how the git commands of this run answer
    commands,    \* commit_and_push: the git commands run so far, in order
    sha          \* commit_and_push: its local sha, the value returned at the end

updaterVars == <<op, status, err, data, data0, keys, values, i, changes, last,
                 image_name, new_tag, existing, coerced, content, entries, indent,
                 dumped>>

mainVars == <<environ, inputs, fs, world, pc, file_no, all_changes, changed_files,
              all_diffs, outputs, log, calls, rc, raised>>

toolVars == <<diff_path, diff, args, git, commands, sha>>

vars == <<updaterVars, mainVars, toolVars>>

\* main is not running
IdleMain ==
    /\ environ = <<>> /\ inputs = <<>> /\ fs = <<>> /\ world = <<>>
    /\ pc = "idle" /\ file_no = 0
    /\ all_changes = <<>> /\ changed_files = <<>> /\ all_diffs = <<>>
    /\ outputs = <<>> /\ log = <<>> /\ calls = <<>>
    /\ rc = -1 /\ raised = ""

\* neither diff_yaml nor commit_and_push is running
IdleTools ==
    /\ diff_path = <<>> /\ diff = <<>>
    /\ args = <<>> /\ git = <<>> /\ commands = <<>> /\ sha = <<>>

-----------------------------------------------------------------------------
(* Texts *)

Digits == {"0", "1", "2", "3", "4", "5", "6", "7", "8", "9"}

DigitVal(c) ==
    CASE c = "0" -> 0 [] c = "1" -> 1 [] c = "2" -> 2 [] c = "3" -> 3
      [] c = "4" -> 4 [] c = "5" -> 5 [] c = "6" -> 6 [] c = "7" -> 7
      [] c = "8" -> 8 [] c = "9" -> 9

DigitChar(d) ==
    CASE d = 0 -> "0" [] d = 1 -> "1" [] d = 2 -> "2" [] d = 3 -> "3"
      [] d = 4 -> "4" [] d = 5 -> "5" [] d = 6 -> "6" [] d = 7 -> "7"
      [] d = 8 -> "8" [] d = 9 -> "9"

\* str.isspace of one character
IsSpace(c) == c \in {" ", "\t", "\n", "\r", "\f"}

\* str.lower of one character
LowerChar(c) ==
    CASE c = "A" -> "a" [] c = "B" -> "b" [] c = "C" -> "c" [] c = "D" -> "d"
      [] c = "E" -> "e" [] c = "F" -> "f" [] c = "G" -> "g" [] c = "H" -> "h"
      [] c = "I" -> "i" [] c = "J" -> "j" [] c = "K" -> "k" [] c = "L" -> "l"
      [] c = "M" -> "m" [] c = "N" -> "n" [] c = "O" -> "o" [] c = "P" -> "p"
      [] c = "Q" -> "q" [] c = "R" -> "r" [] c = "S" -> "s" [] c = "T" -> "t"
      [] c = "U" -> "u" [] c = "V" -> "v" [] c = "W" -> "w" [] c = "X" -> "x"
      [] c = "Y" -> "y" [] c = "Z" -> "z" [] OTHER -> c

Lower(t) == [j \in 1..Len(t) |-> LowerChar(t[j])]

RECURSIVE LStrip(_)
LStrip(t) == IF t # <<>> /\ IsSpace(Head(t)) THEN LStrip(Tail(t)) ELSE t

RECURSIVE RStrip(_)
RStrip(t) ==
    IF t # <<>> /\ IsSpace(t[Len(t)]) THEN RStrip(SubSeq(t, 1, Len(t) - 1)) ELSE t

\* str.strip()
Strip(t) == RStrip(LStrip(t))

\* str.endswith
EndsWith(t, suffix) ==
    /\ Len(suffix) <= Len(t)
    /\ SubSeq(t, Len(t) - Len(suffix) + 1, Len(t)) = suffix

\* `part in text` of two str: part is a substring of text
IsSubstring(part, t) ==
    \E j \in 0..(Len(t) - Len(part)) : SubSeq(t, j + 1, j + Len(part)) = part

\* str.split(sep) for a one-character separator
RECURSIVE SplitAcc(_, _, _)
SplitAcc(t, sep, cur) ==
    IF t = <<>> THEN <<cur>>
    ELSE IF Head(t) = sep THEN <<cur>> \o SplitAcc(Tail(t), sep, <<>>)
    ELSE SplitAcc(Tail(t), sep, Append(cur, Head(t)))

Split(t, sep) == SplitAcc(t, sep, <<>>)

\* A group of digits as int() and float() accept it: digits, with single
\* underscores between digits only.
DigitGroupOk(b) ==
    /\ b # <<>>
    /\ \A j \in 1..Len(b) : b[j] \in Digits \/ b[j] = "_"
    /\ b[1] \in Digits
    /\ b[Len(b)] \in Digits
    /\ \A j \in 1..(Len(b) - 1) : ~(b[j] = "_" /\ b[j + 1] = "_")

RECURSIVE DigitsValue(_, _)
DigitsValue(b, acc) ==
    IF b = <<>> THEN acc
    ELSE IF Head(b) = "_" THEN DigitsValue(Tail(b), acc)
    ELSE DigitsValue(Tail(b), acc * 10 + DigitVal(Head(b)))

HasSign(u) == u # <<>> /\ Head(u) \in {"+", "-"}
Unsigned(u) == IF HasSign(u) THEN Tail(u) ELSE u
SignOf(u) == IF u # <<>> /\ Head(u) = "-" THEN -1 ELSE 1

\* int(text): [ok, v]; ok = FALSE is ValueError
IntParse(t) ==
    LET u == Strip(t)
        b == Unsigned(u)
    IN  IF DigitGroupOk(b)
        THEN [ok |-> TRUE, v |-> SignOf(u) * DigitsValue(b, 0)]
        ELSE [ok |-> FALSE, v |-> 0]

\* str(int)
RECURSIVE NatText(_)
NatText(n) ==
    IF n < 10 THEN <<DigitChar(n)>> ELSE Append(NatText(n \div 10), DigitChar(n % 10))

IntText(n) == IF n < 0 THEN <<"-">> \o NatText(-n) ELSE NatText(n)

\* The position of the first "." of a text, 0 when there is none
RECURSIVE DotPos(_, _)
DotPos(b, j) ==
    IF j > Len(b) THEN 0 ELSE IF b[j] = "." THEN j ELSE DotPos(b, j + 1)

\* float(text): [ok, tag, v]; ok = FALSE is ValueError.  tag is <<>> for a
\* finite value (v, in tenths), else "nan", "inf" or "-inf".  Decimal
\* notation without exponent; the fraction is read to its first digit.
FloatParse(t) ==
    LET u  == Strip(t)
        b  == Unsigned(u)
        lb == Lower(b)
        d  == DotPos(b, 1)
        ip == IF d = 0 THEN b ELSE SubSeq(b, 1, d - 1)
        fp == IF d = 0 THEN <<>> ELSE SubSeq(b, d + 1, Len(b))
    IN  IF lb = <<"n", "a", "n">>
        THEN [ok |-> TRUE, tag |-> <<"n", "a", "n">>, v |-> 0]
        ELSE IF lb \in {<<"i", "n", "f">>, <<"i", "n", "f", "i", "n", "i", "t", "y">>}
        THEN [ok |-> TRUE,
              tag |-> IF SignOf(u) < 0 THEN <<"-", "i", "n", "f">> ELSE <<"i", "n", "f">>,
              v |-> 0]
        ELSE IF /\ (ip # <<>> \/ fp # <<>>)
                /\ (ip = <<>> \/ DigitGroupOk(ip))
                /\ (fp = <<>> \/ DigitGroupOk(fp))
        THEN [ok |-> TRUE, tag |-> <<>>,
              v |-> SignOf(u) * (DigitsValue(ip, 0) * 10
                                 + (IF fp = <<>> THEN 0 ELSE DigitVal(fp[1])))]
        ELSE [ok |-> FALSE, tag |-> <<>>, v |-> 0]

-----------------------------------------------------------------------------
(* Values: the nodes of a document *)

NullV == [kind |-> "null", s |-> <<>>, n |-> 0, items |-> <<>>]
BoolV(b) == [kind |-> "bool", s |-> <<>>, n |-> IF b THEN 1 ELSE 0, items |-> <<>>]
IntV(v) == [kind |-> "int", s |-> <<>>, n |-> v, items |-> <<>>]
FloatV(tenths) == [kind |-> "float", s |-> <<>>, n |-> tenths, items |-> <<>>]
FloatTagV(tag) == [kind |-> "float", s |-> tag, n |-> 0, items |-> <<>>]
StrV(t) == [kind |-> "str", s |-> t, n |-> 0, items |-> <<>>]
MapV(ents) == [kind |-> "map", s |-> <<>>, n |-> 0, items |-> ents]
SeqV(elems) ==
    [kind |-> "seq", s |-> <<>>, n |-> 0,
     items |-> [j \in 1..Len(elems) |-> [k |-> <<>>, v |-> elems[j]]]]
E(k, v) == [k |-> k, v |-> v]
\* a tuple (e1, e2, ...): its elements as entries without keys
TupleV(elems) ==
    [kind |-> "tuple", s |-> <<>>, n |-> 0,
     items |-> [j \in 1..Len(elems) |-> [k |-> <<>>, v |-> elems[j]]]]
\* a YAML() serializer configured with the indentation triple ind
YamlV(ind) == [kind |-> "YAML", s |-> <<>>, n |-> ind.mapping, items |-> <<>>]

IsContainer(x) == x.kind \in {"map", "seq"}
IsScalar(x) == ~IsContainer(x)
IsNaN(x) == x.kind = "float" /\ x.s = <<"n", "a", "n">>
IsNumber(x) == x.kind \in {"bool", "int"} \/ (x.kind = "float" /\ x.s = <<>>)
\* the numeric value in tenths
Tenths(x) == IF x.kind = "float" THEN x.n ELSE x.n * 10

\* Python's a == b where b is a scalar (the value _coerce_value returned): numbers
\* compare by value across bool, int and float, nan equals nothing, a container
\* never equals a scalar.
PyEq(a, b) ==
    IF IsNumber(a) /\ IsNumber(b) THEN Tenths(a) = Tenths(b)
    ELSE IF a.kind = "float" /\ b.kind = "float"
    THEN a.s = b.s /\ ~IsNaN(a) /\ a.s # <<>>
    ELSE IF a.kind = "str" /\ b.kind = "str" THEN a.s = b.s
    ELSE a.kind = "null" /\ b.kind = "null"

\* str(x) of a scalar
PyStr(x) ==
    CASE x.kind = "str" -> x.s
      [] x.kind = "int" -> IntText(x.n)
      [] x.kind = "bool" -> IF x.n = 1 THEN <<"T", "r", "u", "e">>
                                       ELSE <<"F", "a", "l", "s", "e">>
      [] x.kind = "null" -> <<"N", "o", "n", "e">>
      [] x.kind = "float" ->
            IF x.s # <<>> THEN x.s
            ELSE LET a == IF x.n < 0 THEN -x.n ELSE x.n
                 IN  (IF x.n < 0 THEN <<"-">> ELSE <<>>)
                     \o NatText(a \div 10) \o <<".">> \o <<DigitChar(a % 10)>>

TrueTexts == {<<"t", "r", "u", "e">>, <<"y", "e", "s">>, <<"1">>}

\* A boolean handled by the integer branch: the slip of testing int before bool
\* (bool is a subclass of int).
CoerceBoolAsInt(new_value, existing_value) ==
    IF existing_value.kind = "null" THEN StrV(new_value)
    ELSE IF existing_value.kind \in {"int", "bool"}
    THEN LET p == IntParse(new_value) IN IF p.ok THEN IntV(p.v) ELSE StrV(new_value)
    ELSE IF existing_value.kind = "float"
    THEN LET p == FloatParse(new_value)
         IN  IF ~p.ok THEN StrV(new_value)
             ELSE IF p.tag = <<>> THEN FloatV(p.v) ELSE FloatTagV(p.tag)
    ELSE StrV(new_value)

\* _coerce_value(new_value, existing_value)
Coerce(new_value, existing_value) ==
    IF existing_value.kind = "null" THEN StrV(new_value)
    ELSE IF existing_value.kind = "bool"
    THEN BoolV(Lower(Strip(new_value)) \in TrueTexts)
    ELSE IF existing_value.kind = "int"
    THEN LET p == IntParse(new_value) IN IF p.ok THEN IntV(p.v) ELSE StrV(new_value)
    ELSE IF existing_value.kind = "float"
    THEN LET p == FloatParse(new_value)
         IN  IF ~p.ok THEN StrV(new_value)
             ELSE IF p.tag = <<>> THEN FloatV(p.v) ELSE FloatTagV(p.tag)
    ELSE StrV(new_value)

-----------------------------------------------------------------------------
(* Containers *)

\* The position of key k among the entries of a mapping, 0 when absent
\* (`k in node`, node[k])
RECURSIVE KeyIndexFrom(_, _, _)
KeyIndexFrom(ents, k, j) ==
    IF j > Len(ents) THEN 0
    ELSE IF ents[j].k = k THEN j
    ELSE KeyIndexFrom(ents, k, j + 1)

KeyIndex(node, k) == KeyIndexFrom(node.items, k, 1)
HasKey(node, k) == node.kind = "map" /\ KeyIndex(node, k) # 0

\* The position list[idx] reads, 0 when it raises IndexError: a negative
\* index counts from the end.
PyIndex(len, idx) ==
    IF 0 <= idx /\ idx < len THEN idx + 1
    ELSE IF idx < 0 /\ -len <= idx THEN len + idx + 1
    ELSE 0

\* The node at a position path (the positions of the entries followed from
\* the root): how the model names the object a Python reference points to.
RECURSIVE GetPos(_, _)
GetPos(node, pos) ==
    IF pos = <<>> THEN node ELSE GetPos(node.items[Head(pos)].v, Tail(pos))

\* The document with the node at a position path replaced by v: the
\* assignment parent[final_key] = v through a reference into the tree.
RECURSIVE SetPos(_, _, _)
SetPos(node, pos, v) ==
    IF pos = <<>> THEN v
    ELSE [node EXCEPT !.items[Head(pos)].v = SetPos(@, Tail(pos), v)]

NoErr == [type |-> "none", msg |-> ""]
KeyNotFound == [type |-> "KeyError", msg |-> "not found"]
NonIntegerIndex == [type |-> "KeyError", msg |-> "integer index"]
BareKeyError == [type |-> "KeyError", msg |-> ""]
IndexErr == [type |-> "IndexError", msg |-> ""]
TypeErr == [type |-> "TypeError", msg |-> ""]

\* The ValueError of int(part) escaping: the except clause left out
UncaughtValueError == [type |-> "ValueError", msg |-> ""]
\* except ValueError: raise KeyError("Expected integer index for list, ...")
IndexParseError == NonIntegerIndex

\* The membership test left out: current[part] raises on its own
NotInSkipped(current, part) == NoErr
\* `if part not in current: raise KeyError("Key ... not found ...")`: the
\* exception of the test, NoErr when the test passes.  On a str the test is a
\* substring test; on None, bool, int, float it is a TypeError.
NotIn(current, part) ==
    IF current.kind = "map"
    THEN IF KeyIndex(current, part) = 0 THEN KeyNotFound ELSE NoErr
    ELSE IF current.kind = "str"
    THEN IF IsSubstring(part, current.s) THEN NoErr ELSE KeyNotFound
    \* on a tuple the test is: some element equals part
    ELSE IF current.kind = "tuple"
    THEN IF \E j \in 1..Len(current.items) : current.items[j].v = StrV(part)
         THEN NoErr ELSE KeyNotFound
    ELSE TypeErr

\* The loop of _resolve_key_path over parts[:-1], from node `current` at
\* position path pos: [err, pos] of the node reached.
RECURSIVE WalkParts(_, _, _)
WalkParts(current, parts, pos) ==
    IF parts = <<>> THEN [err |-> NoErr, pos |-> pos]
    ELSE LET part == Head(parts)
         IN  IF current.kind = "seq"
             THEN LET p == IntParse(part)
                      j == PyIndex(Len(current.items), p.v)
                  IN  IF ~p.ok THEN [err |-> IndexParseError, pos |-> pos]
                      ELSE IF j = 0 THEN [err |-> IndexErr, pos |-> pos]
                      ELSE WalkParts(current.items[j].v, Tail(parts), Append(pos, j))
             ELSE IF NotIn(current, part) # NoErr
             THEN [err |-> NotIn(current, part), pos |-> pos]
             \* current = current[part]
             ELSE IF current.kind = "map"
             THEN LET j == KeyIndex(current, part)
                  IN  IF j = 0 THEN [err |-> BareKeyError, pos |-> pos]
                      ELSE WalkParts(current.items[j].v, Tail(parts), Append(pos, j))
             ELSE [err |-> TypeErr, pos |-> pos]

\* _resolve_key_path(data, key_path): [err, pos, final, idx, isIdx]; pos is the
\* parent container, final_key is idx when isIdx and the text final otherwise.
ResolveKeyPath(d, key_path) ==
    LET parts == Split(key_path, ".")
        w     == WalkParts(d, SubSeq(parts, 1, Len(parts) - 1), <<>>)
        final == parts[Len(parts)]
        p     == IntParse(final)
    IN  IF w.err # NoErr
        THEN [err |-> w.err, pos |-> w.pos, final |-> final, idx |-> 0, isIdx |-> FALSE]
        ELSE IF GetPos(d, w.pos).kind = "seq"
        THEN IF ~p.ok
             THEN [err |-> IndexParseError, pos |-> w.pos, final |-> final,
                   idx |-> 0, isIdx |-> FALSE]
             ELSE [err |-> NoErr, pos |-> w.pos, final |-> final,
                   idx |-> p.v, isIdx |-> TRUE]
        ELSE [err |-> NoErr, pos |-> w.pos, final |-> final, idx |-> 0, isIdx |-> FALSE]

\* parent[final_key]: [err, j], j the position of the entry read
Subscript(parent, r) ==
    IF parent.kind = "seq"
    THEN LET j == PyIndex(Len(parent.items), r.idx)
         IN  IF ~r.isIdx THEN [err |-> TypeErr, j |-> 0]
             ELSE IF j = 0 THEN [err |-> IndexErr, j |-> 0]
             ELSE [err |-> NoErr, j |-> j]
    ELSE IF parent.kind = "map"
    THEN LET j == KeyIndex(parent, r.final)
         IN  IF j = 0 THEN [err |-> BareKeyError, j |-> 0] ELSE [err |-> NoErr, j |-> j]
    \* a str subscripted by a str, or a scalar that has no subscript
    ELSE [err |-> TypeErr, j |-> 0]

\* The comparison left out: every pair is assigned and recorded
AlwaysDiffers(old_value, co) == TRUE
\* `old_value != coerced` of update_keys and _walk_image_tags
Differs(old_value, co) == ~PyEq(old_value, co)

\* A result of one iteration of the loop of update_keys that raised
Raised(e, d) ==
    [err |-> e, pos |-> <<>>, old |-> NullV, new |-> NullV, changed |-> FALSE,
     data |-> d]

\* The change recorded but the assignment parent[final_key] = coerced left out
StoreAtUnassigned(d, at, old_value, co) ==
    [err |-> NoErr, pos |-> at, old |-> old_value, new |-> co,
     changed |-> Differs(old_value, co), data |-> d]

\* `if old_value != coerced:` assign and record; at is the position of the
\* entry parent[final_key]
StoreAt(d, at, old_value, co) ==
    [err |-> NoErr, pos |-> at, old |-> old_value, new |-> co,
     changed |-> Differs(old_value, co),
     data |-> IF Differs(old_value, co) THEN SetPos(d, at, co) ELSE d]

\* old_value = parent[final_key]; coerced = _coerce_value(new_value, old_value)
ReadAt(d, at, new_value) ==
    StoreAt(d, at, GetPos(d, at), Coerce(new_value, GetPos(d, at)))

AfterSubscript(d, r, sub, new_value) ==
    IF sub.err # NoErr THEN Raised(sub.err, d)
    ELSE ReadAt(d, Append(r.pos, sub.j), new_value)

AfterResolve(d, r, new_value) ==
    IF r.err # NoErr THEN Raised(r.err, d)
    ELSE AfterSubscript(d, r, Subscript(GetPos(d, r.pos), r), new_value)

\* One iteration of the loop of update_keys on document d:
\* [err, pos, old, new, changed, data]
UpdatePair(d, key_path, new_value) ==
    AfterResolve(d, ResolveKeyPath(d, key_path), new_value)

-----------------------------------------------------------------------------
(* update_keys *)

\* The number of (key_path, new_value) pairs of one call
MaxPairs == 2

\* no serializer configured
NoIndent == [mapping |-> 0, sequence |-> 0, offset |-> 0]

NoLast ==
    [valid |-> FALSE, key |-> <<>>, text |-> <<>>, old |-> NullV, new |-> NullV,
     changed |-> FALSE, pos |-> <<>>, before |-> NullV]

\* Documents with the key paths and new values tried on them.
\* app: {version: v1, name: web}, key: same
KeysNested ==
    [doc |-> MapV(<<E(<<"a", "p", "p">>, MapV(<<E(<<"v", "e", "r", "s", "i", "o", "n">>, StrV(<<"v", "1">>)), E(<<"n", "a", "m", "e">>, StrV(<<"w", "e", "b">>))>>)),
                    E(<<"k", "e", "y">>, StrV(<<"s", "a", "m", "e">>))>>),
     paths |-> {<<"a", "p", "p", ".", "v", "e", "r", "s", "i", "o", "n">>, <<"k", "e", "y">>, <<"a", "p", "p">>, <<"m", "i", "s", "s", "i", "n", "g", ".", "p", "a", "t", "h">>, <<"a", "p", "p", ".", "m", "i", "s", "s", "i", "n", "g">>},
     texts |-> {<<"v", "1">>, <<"v", "2">>, <<"s", "a", "m", "e">>}]

\* x: 1, y: 2, on: true, r: 1.5, z: null
KeysTyped ==
    [doc |-> MapV(<<E(<<"x">>, IntV(1)), E(<<"y">>, IntV(2)), E(<<"o", "n">>, BoolV(TRUE)),
                    E(<<"r">>, FloatV(15)), E(<<"z">>, NullV)>>),
     paths |-> {<<"x">>, <<"y">>, <<"o", "n">>, <<"r">>, <<"z">>},
     texts |-> {<<"1">>, <<"1", "0">>, <<"y", "e", "s">>, <<"a", "b", "c">>, <<"1", ".", "5">>, <<"n", "a", "n">>}]

\* items: [{name: a, value: old}, b]
KeysSequence ==
    [doc |-> MapV(<<E(<<"i", "t", "e", "m", "s">>, SeqV(<<MapV(<<E(<<"n", "a", "m", "e">>, StrV(<<"a">>)),
                                              E(<<"v", "a", "l", "u", "e">>, StrV(<<"o", "l", "d">>))>>),
                                       StrV(<<"b">>)>>))>>),
     paths |-> {<<"i", "t", "e", "m", "s", ".", "0", ".", "v", "a", "l", "u", "e">>, <<"i", "t", "e", "m", "s", ".", "1">>, <<"i", "t", "e", "m", "s", ".", "-", "1">>, <<"i", "t", "e", "m", "s", ".", "n", "o", "t", "a", "n", "u", "m", "b", "e", "r">>,
                <<"i", "t", "e", "m", "s", ".", "x", ".", "v", "a", "l", "u", "e">>, <<"i", "t", "e", "m", "s", ".", "5">>, <<"i", "t", "e", "m", "s", ".", "5", ".", "v", "a", "l", "u", "e">>},
     texts |-> {<<"o", "l", "d">>, <<"n", "e", "w">>}]

\* a: {b: v1}, n: 3
KeysBelowScalar ==
    [doc |-> MapV(<<E(<<"a">>, MapV(<<E(<<"b">>, StrV(<<"v", "1">>))>>)), E(<<"n">>, IntV(3))>>),
     paths |-> {<<"a", ".", "b", ".", "c">>, <<"a", ".", "b", ".", "v", ".", "c">>, <<"a", ".", "b", ".", "q", ".", "c">>, <<"n", ".", "c">>, <<"n", ".", "c", ".", "d">>, <<"a", ".", "q", ".", "c">>},
     texts |-> {<<"v", "2">>}]

KeysFamilies == {KeysNested, KeysTyped, KeysSequence, KeysBelowScalar}

Idle ==
    /\ image_name = <<>>
    /\ new_tag = <<>>
    /\ existing = NullV
    /\ coerced = NullV
    /\ content = <<>>
    /\ entries = <<>>
    /\ indent = NoIndent
    /\ dumped = <<>>

InitKeys ==
    /\ IdleMain /\ IdleTools
    /\ op = "update_keys"
    /\ status = "running"
    /\ err = NoErr
    /\ \E f \in KeysFamilies : \E n \in 0..MaxPairs :
          /\ data = f.doc
          /\ keys \in [1..n -> f.paths]
          /\ values \in [1..n -> f.texts]
    /\ data0 = data
    /\ i = 0
    /\ changes = <<>>
    /\ last = NoLast
    /\ Idle

\* zip(keys, values) stops at the shorter list
NumPairs == IF Len(keys) < Len(values) THEN Len(keys) ELSE Len(values)

\* The document an exception of pair k leaves behind (d: as pairs 1..k-1 left
\* it, d0: as it was before the call). A transactional variant would restore d0.
RolledBack(d, d0) == d0
\* update_keys has no try/except: the document stays as the earlier pairs left it
AfterRaise(d, d0) == d

\* One iteration of `for key_path, new_value in zip(keys, values)` that
\* completes.
UpdateKeysPair ==
    /\ op = "update_keys" /\ status = "running" /\ i < NumPairs
    /\ LET u == UpdatePair(data, keys[i + 1], values[i + 1])
       IN  /\ u.err = NoErr
           /\ data' = u.data
           /\ changes' = IF u.changed
                         THEN Append(changes, [key |-> keys[i + 1], old |-> u.old,
                                               new |-> u.new])
                         ELSE changes
           /\ last' = [valid |-> TRUE, key |-> keys[i + 1], text |-> values[i + 1],
                       old |-> u.old, new |-> u.new, changed |-> u.changed,
                       pos |-> u.pos, before |-> data]
    /\ i' = i + 1
    /\ UNCHANGED <<mainVars, toolVars>>
    /\ UNCHANGED <<op, status, err, data0, keys, values, image_name, new_tag,
                   existing, coerced, content, entries, indent, dumped>>

\* One iteration that raises: the call ends with the exception.
UpdateKeysRaise ==
    /\ op = "update_keys" /\ status = "running" /\ i < NumPairs
    /\ LET u == UpdatePair(data, keys[i + 1], values[i + 1])
       IN  /\ u.err # NoErr
           /\ err' = u.err
    /\ status' = "error"
    /\ data' = AfterRaise(data, data0)
    /\ UNCHANGED <<mainVars, toolVars>>
    /\ UNCHANGED <<op, data0, keys, values, i, changes, last, image_name, new_tag,
                   existing, coerced, content, entries, indent, dumped>>

\* return changes
UpdateKeysReturn ==
    /\ op = "update_keys" /\ status = "running" /\ i = NumPairs
    /\ status' = "done"
    /\ UNCHANGED <<mainVars, toolVars>>
    /\ UNCHANGED <<op, err, data, data0, keys, values, i, changes, last, image_name,
                   new_tag, existing, coerced, content, entries, indent, dumped>>

NextKeys == UpdateKeysPair \/ UpdateKeysRaise \/ UpdateKeysReturn

SpecKeys == InitKeys /\ [][NextKeys]_vars

-----------------------------------------------------------------------------
(* Properties of update_keys *)

\* key_path resolves in d: resolution and the read of the old value raise nothing
Resolves(d, key_path) == UpdatePair(d, key_path, <<>>).err = NoErr
\* the value d holds at key_path
ValueAt(d, key_path) == UpdatePair(d, key_path, <<>>).old
HoldsAt(d, key_path, v) == Resolves(d, key_path) /\ ValueAt(d, key_path) = v

\* the node the first m - 1 segments of key_path reach in d
PrefixWalk(d, key_path, m) == WalkParts(d, SubSeq(Split(key_path, "."), 1, m - 1), <<>>)
PrefixReaches(d, key_path, m, kind) ==
    /\ PrefixWalk(d, key_path, m).err = NoErr
    /\ GetPos(d, PrefixWalk(d, key_path, m).pos).kind = kind

\* a non-final segment names a key that the mapping reached so far lacks
MissingIntermediateKey(d, key_path) ==
    \E m \in 1..(Len(Split(key_path, ".")) - 1) :
        /\ PrefixReaches(d, key_path, m, "map")
        /\ \A j \in 1..Len(GetPos(d, PrefixWalk(d, key_path, m).pos).items) :
              GetPos(d, PrefixWalk(d, key_path, m).pos).items[j].k
                  # Split(key_path, ".")[m]

\* a segment, intermediate or final, is applied to a sequence and is no integer
NonIntegerOnSequence(d, key_path) ==
    \E m \in 1..Len(Split(key_path, ".")) :
        /\ PrefixReaches(d, key_path, m, "seq")
        /\ ~IntParse(Split(key_path, ".")[m]).ok

PairPending == op = "update_keys" /\ status = "running" /\ i < NumPairs

\* C1: a call update_keys(D, [p], [t]) whose path p resolves in D and whose text
\* t coerces, against the value at p, to a value equal to that value does not
\* raise, returns an empty change list and leaves the document as it was.
C1_NoOpLeavesDocument ==
    (/\ op = "update_keys"
     /\ Len(keys) = 1
     /\ Resolves(data0, keys[1])
     /\ PyEq(ValueAt(data0, keys[1]), Coerce(values[1], ValueAt(data0, keys[1]))))
    => /\ status # "error"
       /\ changes = <<>>
       /\ data = data0

\* the call returned after a no-op pair whose text had to be coerced: `yes`
\* against a boolean true
C1_Witness ==
    /\ op = "update_keys" /\ status = "done" /\ Len(keys) = 1
    /\ ValueAt(data0, keys[1]) = BoolV(TRUE)
    /\ values[1] = <<"y", "e", "s">>
    /\ changes = <<>>

\* C2 as stated: when the call has returned, the document holds, at the key
\* path of every change record, the new value of that record.
C2_AfterCallHoldsEveryRecord ==
    (op = "update_keys" /\ status = "done")
    => \A k \in 1..Len(changes) : HoldsAt(data, changes[k].key, changes[k].new)

\* C2, amended: an iteration on a pair whose coerced value differs from the
\* value at key_path appends exactly the record {key, old, new} at the end of
\* the list and leaves the coerced value at key_path; an iteration on a pair
\* whose coerced value equals it appends nothing and changes nothing.
C2_PairRecordsAndStores ==
    [][(op = "update_keys" /\ i' = i + 1)
       => IF ~PyEq(ValueAt(data, keys[i + 1]),
                   Coerce(values[i + 1], ValueAt(data, keys[i + 1])))
          THEN /\ changes' = Append(changes,
                                [key |-> keys[i + 1],
                                 old |-> ValueAt(data, keys[i + 1]),
                                 new |-> Coerce(values[i + 1], ValueAt(data, keys[i + 1]))])
               /\ HoldsAt(data', keys[i + 1],
                          Coerce(values[i + 1], ValueAt(data, keys[i + 1])))
          ELSE changes' = changes /\ data' = data]_vars

\* two pairs on different paths, both recorded, the first coerced to an integer
C2_Witness ==
    /\ op = "update_keys" /\ status = "done"
    /\ Len(changes) = 2
    /\ changes[1].key = keys[1] /\ changes[2].key = keys[2] /\ keys[1] # keys[2]
    /\ changes[1].new = IntV(10)
    /\ HoldsAt(data, keys[1], IntV(10))

\* C4: an iteration on a key path one of whose non-final segments names a key
\* absent from the mapping reached so far raises KeyError "... not found ..."
\* and appends no change record.
C4_MissingIntermediateRaises ==
    [][(PairPending /\ MissingIntermediateKey(data, keys[i + 1]))
       => /\ status' = "error"
          /\ err' = KeyNotFound
          /\ changes' = changes]_vars

\* the second pair of a call raised on a missing intermediate key
C4_Witness ==
    /\ op = "update_keys" /\ status = "error" /\ err = KeyNotFound
    /\ i = 1
    /\ MissingIntermediateKey(data, keys[2])

\* C5: an iteration on a key path one of whose segments, intermediate or
\* final, is applied to a sequence and does not parse as an integer raises
\* KeyError "Expected integer index ..." and leaves the document unchanged.
C5_NonIntegerIndexRaises ==
    [][(PairPending /\ NonIntegerOnSequence(data, keys[i + 1]))
       => /\ status' = "error"
          /\ err' = NonIntegerIndex
          /\ data' = data
          /\ changes' = changes]_vars

\* the call raised on a final segment that is no integer
C5_Witness ==
    /\ op = "update_keys" /\ status = "error" /\ err = NonIntegerIndex
    /\ keys[i + 1] = <<"i", "t", "e", "m", "s", ".", "n", "o", "t", "a", "n", "u", "m", "b", "e", "r">>
    /\ NonIntegerOnSequence(data, keys[i + 1])

\* C6: the iteration that raises leaves the document and the change list as
\* the earlier pairs left them (the value of the last change record is still
\* in the document), and no iteration follows it.
C6_AbortKeepsEarlierChanges ==
    /\ []((op = "update_keys" /\ status = "error" /\ changes # <<>>)
          => HoldsAt(data, changes[Len(changes)].key, changes[Len(changes)].new))
    /\ [][/\ status # "error"
          /\ (status' = "error" => data' = data /\ changes' = changes /\ i' = i)]_vars

\* the second pair raised after the first had changed the document
C6_Witness ==
    /\ op = "update_keys" /\ status = "error"
    /\ i = 1 /\ Len(changes) = 1
    /\ data # data0
    /\ HoldsAt(data, keys[1], changes[1].new)

-----------------------------------------------------------------------------
(* _coerce_value on its own *)

\* The new texts tried: integers and floats in the notations int() and float()
\* accept and reject, the spellings of true, and plain words.
CoerceTexts ==
    {<<"5">>,
     <<" ", "5", " ">>,
     <<"+", "5">>,
     <<"-", "5">>,
     <<"0", "5">>,
     <<"1", "_", "0">>,
     <<"1", "_", "_", "0">>,
     <<"_", "5">>,
     <<>>,
     <<" ">>,
     <<"a", "b", "c">>,
     <<"t", "r", "u", "e">>,
     <<"T", "r", "u", "e">>,
     <<" ", "Y", "E", "S", " ">>,
     <<"y", "e", "s">>,
     <<"1">>,
     <<" ", "1">>,
     <<"f", "a", "l", "s", "e">>,
     <<"n", "o">>,
     <<"0">>,
     <<"2", ".", "5">>,
     <<"1", ".", "5">>,
     <<".", "5">>,
     <<"5", ".">>,
     <<"1", ".", "0">>,
     <<"-", "2", ".", "5">>,
     <<"1", "_", "0", ".", "5">>,
     <<"n", "a", "n">>,
     <<"N", "a", "N">>,
     <<"i", "n", "f">>,
     <<"-", "i", "n", "f">>,
     <<"I", "n", "f", "i", "n", "i", "t", "y">>,
     <<"1", ".", "2", ".", "3">>,
     <<"n", "o", "t", "-", "a", "-", "n", "u", "m", "b", "e", "r">>,
     <<"5", " ", "5">>,
     <<"0", "x", "1", "F">>,
     <<"v", "2", ".", "0", ".", "0">>}

\* The existing values tried: every scalar type, and the two containers
CoerceExisting ==
    {NullV, BoolV(TRUE), BoolV(FALSE), IntV(3), IntV(0), IntV(1), IntV(-5),
     FloatV(15), FloatV(10), FloatV(0), FloatTagV(<<"n", "a", "n">>),
     StrV(<<"h", "e", "l", "l", "o">>), StrV(<<"5">>), StrV(<<>>),
     MapV(<<E(<<"a">>, IntV(1))>>), SeqV(<<IntV(1)>>)}

InitCoerce ==
    /\ IdleMain /\ IdleTools
    /\ op = "_coerce_value"
    /\ status = "running"
    /\ err = NoErr
    /\ new_tag \in CoerceTexts
    /\ existing \in CoerceExisting
    /\ coerced = NullV
    /\ data = NullV /\ data0 = NullV
    /\ keys = <<>> /\ values = <<>> /\ i = 0 /\ changes = <<>> /\ last = NoLast
    /\ image_name = <<>>
    /\ content = <<>> /\ entries = <<>> /\ indent = NoIndent /\ dumped = <<>>

\* coerced = _coerce_value(new_value, existing_value)
CoerceValue ==
    /\ op = "_coerce_value" /\ status = "running"
    /\ coerced' = Coerce(new_tag, existing)
    /\ status' = "done"
    /\ UNCHANGED <<mainVars, toolVars>>
    /\ UNCHANGED <<op, err, data, data0, keys, values, i, changes, last, image_name,
                   new_tag, existing, content, entries, indent, dumped>>

NextCoerce == CoerceValue

SpecCoerce == InitCoerce /\ [][NextCoerce]_vars

\* C3: the value _coerce_value returns follows the table, by the type of the
\* existing value alone: null -> the text; boolean -> the boolean that is
\* true iff the trimmed lower-cased text is "true", "yes" or "1"; integer ->
\* the parsed integer, else the text; float -> the parsed float, else the
\* text; string -> the text.  With the cases the specification names.
C3_CoercionTable ==
    (op = "_coerce_value" /\ status = "done")
    => /\ existing.kind = "null" => coerced = StrV(new_tag)
       /\ existing.kind = "bool"
            => /\ coerced.kind = "bool"
               /\ coerced.n = 1 <=> Lower(Strip(new_tag)) \in TrueTexts
       /\ existing.kind = "int"
            => IF IntParse(new_tag).ok
               THEN coerced.kind = "int" /\ coerced.n = IntParse(new_tag).v
               ELSE coerced = StrV(new_tag)
       /\ existing.kind = "float"
            => IF FloatParse(new_tag).ok
               THEN /\ coerced.kind = "float"
                    /\ coerced.s = FloatParse(new_tag).tag
                    /\ coerced.n = FloatParse(new_tag).v
               ELSE coerced = StrV(new_tag)
       /\ existing.kind = "str" => coerced = StrV(new_tag)
       /\ (existing = IntV(3) /\ new_tag = <<"5">>) => coerced = IntV(5)
       /\ (existing = IntV(3) /\ new_tag = <<"a", "b", "c">>) => coerced = StrV(<<"a", "b", "c">>)
       /\ (existing = IntV(1) /\ new_tag = <<"y", "e", "s">>) => coerced = StrV(<<"y", "e", "s">>)
       /\ (existing = BoolV(TRUE) /\ new_tag = <<"5">>) => coerced = BoolV(FALSE)
       /\ (existing = BoolV(FALSE) /\ new_tag = <<" ", "Y", "E", "S", " ">>) => coerced = BoolV(TRUE)
       /\ (existing = FloatV(15) /\ new_tag = <<"2", ".", "5">>) => coerced = FloatV(25)
       /\ (existing = FloatV(15) /\ new_tag = <<"5">>) => coerced = FloatV(50)
       /\ (existing = FloatV(15) /\ new_tag = <<"1", ".", "2", ".", "3">>) => coerced = StrV(<<"1", ".", "2", ".", "3">>)
       /\ (existing = NullV /\ new_tag = <<"5">>) => coerced = StrV(<<"5">>)
       /\ (existing = StrV(<<"5">>) /\ new_tag = <<"t", "r", "u", "e">>) => coerced = StrV(<<"t", "r", "u", "e">>)

\* a boolean given a text that is no spelling of true: false, not a string
C3_Witness ==
    /\ op = "_coerce_value" /\ status = "done"
    /\ existing = BoolV(TRUE)
    /\ new_tag = <<"a", "b", "c">>
    /\ coerced = BoolV(FALSE)

-----------------------------------------------------------------------------
(* update_image_tags *)

\* node[key] of a mapping that has the key
ValueOf(node, key) == node.items[KeyIndex(node, key)].v

\* A reference that merely ends with the image name: the "/" left out
MatchesBareSuffix(v, name) == EndsWith(PyStr(v), name)
\* repo_val = str(node[...]);
\* repo_val.endswith(f"/{image_name}") or repo_val == image_name
Matches(v, name) == EndsWith(PyStr(v), <<"/">> \o name) \/ PyStr(v) = name

\* f"{path}.tag" if path else "tag"
TagPath(path, tag_key) == IF path # <<>> THEN path \o <<".">> \o tag_key ELSE tag_key

\* The entry of tag_key taken out and put back as the last key of the mapping
SetTagMovesKey(r, tag_key, old_tag, co, path) ==
    [node |-> [r.node EXCEPT !.items =
                  [j \in 1..Len(r.node.items) |->
                      IF j < KeyIndex(r.node, tag_key) THEN r.node.items[j]
                      ELSE IF j < Len(r.node.items) THEN r.node.items[j + 1]
                      ELSE E(tag_key, co)]],
     changes |-> Append(r.changes,
                        [key |-> TagPath(path, tag_key), old |-> old_tag, new |-> co])]
\* node[tag_key] = coerced; changes.append({...}) on r = [node, changes]
SetTag(r, tag_key, old_tag, co, path) ==
    [node |-> [r.node EXCEPT !.items[KeyIndex(r.node, tag_key)].v = co],
     changes |-> Append(r.changes,
                        [key |-> TagPath(path, tag_key), old |-> old_tag, new |-> co])]

\* Only the first pattern that fires on a node is applied: the second check
\* written as an elif of the first
CheckPatternOnce(r, name_key, tag_key, name, tag, path) ==
    IF /\ r.changes = <<>>
       /\ HasKey(r.node, name_key) /\ HasKey(r.node, tag_key)
       /\ Matches(ValueOf(r.node, name_key), name)
       /\ Differs(ValueOf(r.node, tag_key), Coerce(tag, ValueOf(r.node, tag_key)))
    THEN SetTag(r, tag_key, ValueOf(r.node, tag_key),
                Coerce(tag, ValueOf(r.node, tag_key)), path)
    ELSE r

\* One of the two pattern checks of _walk_image_tags on a mapping node, applied
\* to r = [node, changes]: `if name_key in node and tag_key in node:` ...
CheckPattern(r, name_key, tag_key, name, tag, path) ==
    IF /\ HasKey(r.node, name_key) /\ HasKey(r.node, tag_key)
       /\ Matches(ValueOf(r.node, name_key), name)
       /\ Differs(ValueOf(r.node, tag_key), Coerce(tag, ValueOf(r.node, tag_key)))
    THEN SetTag(r, tag_key, ValueOf(r.node, tag_key),
                Coerce(tag, ValueOf(r.node, tag_key)), path)
    ELSE r

\* child_path: f"{path}.{key}" if path else str(key) under a mapping,
\* f"{path}.{i}" under a sequence
ChildPath(node, j, path) ==
    IF node.kind = "map"
    THEN IF path # <<>> THEN path \o <<".">> \o node.items[j].k ELSE node.items[j].k
    ELSE path \o <<".">> \o IntText(j - 1)

\* r with the change records chs put before its own
After(chs, r) == [node |-> r.node, changes |-> chs \o r.changes]

RECURSIVE WalkImageTags(_, _, _, _), WalkChildren(_, _, _, _, _)

\* The records of the later children put before those of child j: the list
\* built by prepending
WalkRestReversed(c, node, j, name, tag, path) ==
    [node |-> WalkChildren([node EXCEPT !.items[j].v = c.node], j + 1, name, tag,
                           path).node,
     changes |-> WalkChildren([node EXCEPT !.items[j].v = c.node], j + 1, name, tag,
                              path).changes \o c.changes]
\* the walk of child j done (c), the walk of the children after it
WalkRest(c, node, j, name, tag, path) ==
    After(c.changes,
          WalkChildren([node EXCEPT !.items[j].v = c.node], j + 1, name, tag, path))

\* `for key in node:` / `for i, item in enumerate(node):` from child j on
WalkChildren(node, j, name, tag, path) ==
    IF j > Len(node.items) THEN [node |-> node, changes |-> <<>>]
    ELSE WalkRest(WalkImageTags(node.items[j].v, name, tag, ChildPath(node, j, path)),
                  node, j, name, tag, path)

\* the two checks done on a mapping (r), the recursion into its children
WalkBelow(r, name, tag, path) ==
    After(r.changes, WalkChildren(r.node, 1, name, tag, path))

\* _walk_image_tags(node, image_name, new_tag, changes, path): [node, changes],
\* the node as the walk leaves it and the records the walk appended
WalkImageTags(node, name, tag, path) ==
    IF node.kind = "map"
    THEN WalkBelow(CheckPattern(CheckPattern([node |-> node, changes |-> <<>>],
                                             <<"r", "e", "p", "o", "s", "i", "t", "o", "r", "y">>, <<"t", "a", "g">>, name, tag, path),
                                <<"n", "a", "m", "e">>, <<"n", "e", "w", "T", "a", "g">>, name, tag, path),
                   name, tag, path)
    ELSE IF node.kind = "seq" THEN WalkChildren(node, 1, name, tag, path)
    ELSE [node |-> node, changes |-> <<>>]

\* Image references and tags the documents are built from
RepoPool == {StrV(<<"g", "h", "c", "r", ".", "i", "o", "/", "o", "r", "g", "/", "a", "p", "p">>), StrV(<<"a", "p", "p">>), StrV(<<"g", "h", "c", "r", ".", "i", "o", "/", "o", "r", "g", "/", "o", "t", "h", "e", "r", "a", "p", "p">>),
             StrV(<<"o", "r", "g", "/", "a", "p", "p">>)}
TagPool == {StrV(<<"v", "1">>), StrV(<<"v", "2">>), IntV(1)}
ImageNames == {<<"a", "p", "p">>, <<"o", "t", "h", "e", "r", "a", "p", "p">>, <<"o", "r", "g", "/", "a", "p", "p">>}
NewTags == {<<"v", "1">>, <<"v", "2">>, <<"1">>}

Helm(r, t) == MapV(<<E(<<"r", "e", "p", "o", "s", "i", "t", "o", "r", "y">>, r), E(<<"t", "a", "g">>, t)>>)
Kustomize(r, t) == MapV(<<E(<<"n", "a", "m", "e">>, r), E(<<"n", "e", "w", "T", "a", "g">>, t)>>)

\* image: {repository, tag}
HelmDocs == {MapV(<<E(<<"i", "m", "a", "g", "e">>, Helm(r, t)), E(<<"r", "e", "p", "l", "i", "c", "a", "s">>, IntV(1))>>) :
                r \in RepoPool, t \in TagPool}
\* images: [{name, newTag}]
KustomizeDocs == {MapV(<<E(<<"i", "m", "a", "g", "e", "s">>, SeqV(<<Kustomize(r, t)>>))>>) :
                     r \in RepoPool, t \in TagPool}
\* both patterns on one mapping
BothDocs ==
    {MapV(<<E(<<"i", "m", "a", "g", "e">>, MapV(<<E(<<"r", "e", "p", "o", "s", "i", "t", "o", "r", "y">>, r), E(<<"t", "a", "g">>, t),
                               E(<<"n", "a", "m", "e">>, r2), E(<<"n", "e", "w", "T", "a", "g">>, t2)>>))>>) :
        r \in RepoPool, t \in TagPool, r2 \in {StrV(<<"a", "p", "p">>), StrV(<<"o", "t", "h", "e", "r">>)},
        t2 \in {StrV(<<"v", "1">>), IntV(1)}}
\* several references at several depths, of both patterns
NestedDocs ==
    {MapV(<<E(<<"s", "e", "r", "v", "i", "c", "e", "s">>,
              MapV(<<E(<<"a", "p", "i">>, MapV(<<E(<<"i", "m", "a", "g", "e">>, Helm(StrV(<<"g", "h", "c", "r", ".", "i", "o", "/", "o", "r", "g", "/", "a", "p", "p">>), t))>>)),
                     E(<<"w", "e", "b">>, MapV(<<E(<<"i", "m", "a", "g", "e">>,
                                        Helm(StrV(<<"g", "h", "c", "r", ".", "i", "o", "/", "o", "r", "g", "/", "o", "t", "h", "e", "r", "a", "p", "p">>), t))>>))>>)),
            E(<<"i", "n", "i", "t", "C", "o", "n", "t", "a", "i", "n", "e", "r", "s">>, SeqV(<<MapV(<<E(<<"i", "m", "a", "g", "e">>, Helm(r, StrV(<<"v", "1">>)))>>)>>)),
            E(<<"i", "m", "a", "g", "e", "s">>, SeqV(<<Kustomize(StrV(<<"a", "p", "p">>), t), Kustomize(r, IntV(1))>>))>>) :
        r \in RepoPool, t \in TagPool}
\* a document whose root is a sequence
RootSeqDocs == {SeqV(<<Helm(r, t), Kustomize(r, t)>>) : r \in RepoPool, t \in TagPool}

ImageDocs == HelmDocs \cup KustomizeDocs \cup BothDocs \cup NestedDocs \cup RootSeqDocs

InitImage ==
    /\ IdleMain /\ IdleTools
    /\ op = "update_image_tags"
    /\ status = "running"
    /\ err = NoErr
    /\ data \in ImageDocs
    /\ data0 = data
    /\ image_name \in ImageNames
    /\ new_tag \in NewTags
    /\ changes = <<>>
    /\ keys = <<>> /\ values = <<>> /\ i = 0 /\ last = NoLast
    /\ existing = NullV /\ coerced = NullV
    /\ content = <<>> /\ entries = <<>> /\ indent = NoIndent /\ dumped = <<>>

\* changes = []; _walk_image_tags(data, image_name, new_tag, changes);
\* return changes
UpdateImageTags ==
    /\ op = "update_image_tags" /\ status = "running"
    /\ data' = WalkImageTags(data, image_name, new_tag, <<>>).node
    /\ changes' = WalkImageTags(data, image_name, new_tag, <<>>).changes
    /\ status' = "done"
    /\ UNCHANGED <<mainVars, toolVars>>
    /\ UNCHANGED <<op, err, data0, keys, values, i, last, image_name, new_tag,
                   existing, coerced, content, entries, indent, dumped>>

NextImage == UpdateImageTags

SpecImage == InitImage /\ [][NextImage]_vars

-----------------------------------------------------------------------------
(* Properties of update_image_tags *)

\* the position paths of all nodes of a tree
RECURSIVE PosSet(_)
PosSet(node) ==
    {<<>>} \cup UNION {{<<j>> \o q : q \in PosSet(node.items[j].v)} :
                         j \in 1..Len(node.items)}

\* the dot-joined keys and indices from the root to the node at position path P
RECURSIVE PathText(_, _)
PathText(node, P) ==
    IF P = <<>> THEN <<>>
    ELSE LET seg == IF node.kind = "map" THEN node.items[Head(P)].k
                    ELSE IntText(Head(P) - 1)
             rest == PathText(node.items[Head(P)].v, Tail(P))
         IN  IF rest = <<>> THEN seg ELSE seg \o <<".">> \o rest

TagKeyAt(d, P, tag_key) ==
    IF P = <<>> THEN tag_key ELSE PathText(d, P) \o <<".">> \o tag_key

\* the matching rule as the specification words it: the reference is the
\* image name, or is longer and ends with the image name preceded by "/"
RefersTo(ref, name) ==
    \/ ref = name
    \/ /\ Len(ref) > Len(name)
       /\ ref[Len(ref) - Len(name)] = "/"
       /\ \A j \in 1..Len(name) : ref[Len(ref) - Len(name) + j] = name[j]

HasPattern(node, name_key, tag_key) ==
    node.kind = "map"
    /\ (\E j \in 1..Len(node.items) : node.items[j].k = name_key)
    /\ (\E j \in 1..Len(node.items) : node.items[j].k = tag_key)

\* the node at P has the pattern and refers to the image
MatchesAt(d, P, name_key, tag_key) ==
    /\ HasPattern(GetPos(d, P), name_key, tag_key)
    /\ RefersTo(PyStr(ValueOf(GetPos(d, P), name_key)), image_name)

\* ... and the coerced new tag differs from its tag
DueAt(d, P, name_key, tag_key) ==
    /\ MatchesAt(d, P, name_key, tag_key)
    /\ ~PyEq(ValueOf(GetPos(d, P), tag_key),
             Coerce(new_tag, ValueOf(GetPos(d, P), tag_key)))

\* the tag of the node at P after the call is the coerced new tag when the node
\* matches and the two differ, and the tag it had otherwise
TagOutcome(P, name_key, tag_key) ==
    HasPattern(GetPos(data0, P), name_key, tag_key)
    => ValueOf(GetPos(data, P), tag_key)
         = IF DueAt(data0, P, name_key, tag_key)
           THEN Coerce(new_tag, ValueOf(GetPos(data0, P), tag_key))
           ELSE ValueOf(GetPos(data0, P), tag_key)

ImageDone == op = "update_image_tags" /\ status = "done"

\* C7: after update_image_tags, the tag of a Helm-style node (the newTag of a
\* Kustomize-style node) has been replaced iff its repository (name), as a
\* string, is the image name or ends with "/" + image name; a reference that
\* ends with the image name without the "/" keeps its tag.
C7_MatchRule ==
    ImageDone
    => \A P \in PosSet(data0) :
          /\ TagOutcome(P, <<"r", "e", "p", "o", "s", "i", "t", "o", "r", "y">>, <<"t", "a", "g">>)
          /\ TagOutcome(P, <<"n", "a", "m", "e">>, <<"n", "e", "w", "T", "a", "g">>)

\* image `app` on a document with ghcr.io/org/app (tag replaced) and
\* ghcr.io/org/otherapp (same old tag, kept)
C7_Witness ==
    /\ ImageDone /\ image_name = <<"a", "p", "p">>
    /\ \E P, Q \in PosSet(data0) :
          /\ HasPattern(GetPos(data0, P), <<"r", "e", "p", "o", "s", "i", "t", "o", "r", "y">>, <<"t", "a", "g">>)
          /\ ValueOf(GetPos(data0, P), <<"r", "e", "p", "o", "s", "i", "t", "o", "r", "y">>) = StrV(<<"g", "h", "c", "r", ".", "i", "o", "/", "o", "r", "g", "/", "o", "t", "h", "e", "r", "a", "p", "p">>)
          /\ HasPattern(GetPos(data0, Q), <<"r", "e", "p", "o", "s", "i", "t", "o", "r", "y">>, <<"t", "a", "g">>)
          /\ ValueOf(GetPos(data0, Q), <<"r", "e", "p", "o", "s", "i", "t", "o", "r", "y">>) = StrV(<<"g", "h", "c", "r", ".", "i", "o", "/", "o", "r", "g", "/", "a", "p", "p">>)
          /\ ValueOf(GetPos(data0, P), <<"t", "a", "g">>) = ValueOf(GetPos(data0, Q), <<"t", "a", "g">>)
          /\ ValueOf(GetPos(data, P), <<"t", "a", "g">>) = ValueOf(GetPos(data0, P), <<"t", "a", "g">>)
          /\ ValueOf(GetPos(data, Q), <<"t", "a", "g">>) # ValueOf(GetPos(data0, Q), <<"t", "a", "g">>)

\* the (node, pattern) pairs of the document that match and whose tag differs
DuePairs(d) ==
    {<<P, <<"t", "a", "g">>>> : P \in {Q \in PosSet(d) : DueAt(d, Q, <<"r", "e", "p", "o", "s", "i", "t", "o", "r", "y">>, <<"t", "a", "g">>)}}
    \cup {<<P, <<"n", "e", "w", "T", "a", "g">>>> : P \in {Q \in PosSet(d) : DueAt(d, Q, <<"n", "a", "m", "e">>, <<"n", "e", "w", "T", "a", "g">>)}}

\* C8: the two pattern checks are independent.  Every matching Helm-style tag
\* and every matching Kustomize-style newTag that differs from the coerced new
\* tag is replaced and has its own change record, also when both patterns are
\* on one mapping, where the record of `tag` is directly before the record of
\* `newTag`.
C8_BothPatternsIndependent ==
    ImageDone
    => /\ Len(changes) = Cardinality(DuePairs(data0))
       /\ \A P \in PosSet(data0) :
             /\ DueAt(data0, P, <<"r", "e", "p", "o", "s", "i", "t", "o", "r", "y">>, <<"t", "a", "g">>)
                  => ValueOf(GetPos(data, P), <<"t", "a", "g">>)
                       = Coerce(new_tag, ValueOf(GetPos(data0, P), <<"t", "a", "g">>))
             /\ DueAt(data0, P, <<"n", "a", "m", "e">>, <<"n", "e", "w", "T", "a", "g">>)
                  => ValueOf(GetPos(data, P), <<"n", "e", "w", "T", "a", "g">>)
                       = Coerce(new_tag, ValueOf(GetPos(data0, P), <<"n", "e", "w", "T", "a", "g">>))
             /\ (DueAt(data0, P, <<"r", "e", "p", "o", "s", "i", "t", "o", "r", "y">>, <<"t", "a", "g">>) /\ DueAt(data0, P, <<"n", "a", "m", "e">>, <<"n", "e", "w", "T", "a", "g">>))
                  => \E k \in 1..(Len(changes) - 1) :
                        /\ changes[k]
                             = [key |-> TagKeyAt(data0, P, <<"t", "a", "g">>),
                                old |-> ValueOf(GetPos(data0, P), <<"t", "a", "g">>),
                                new |-> Coerce(new_tag, ValueOf(GetPos(data0, P), <<"t", "a", "g">>))]
                        /\ changes[k + 1]
                             = [key |-> TagKeyAt(data0, P, <<"n", "e", "w", "T", "a", "g">>),
                                old |-> ValueOf(GetPos(data0, P), <<"n", "e", "w", "T", "a", "g">>),
                                new |-> Coerce(new_tag,
                                               ValueOf(GetPos(data0, P), <<"n", "e", "w", "T", "a", "g">>))]

\* one mapping with repository, tag, name and newTag, both replaced
C8_Witness ==
    /\ ImageDone
    /\ Len(changes) = 2
    /\ changes[1].key = <<"i", "m", "a", "g", "e", ".", "t", "a", "g">> /\ changes[2].key = <<"i", "m", "a", "g", "e", ".", "n", "e", "w", "T", "a", "g">>
    /\ HoldsAt(data, <<"i", "m", "a", "g", "e", ".", "t", "a", "g">>, StrV(<<"v", "2">>))
    /\ HoldsAt(data, <<"i", "m", "a", "g", "e", ".", "n", "e", "w", "T", "a", "g">>, StrV(<<"v", "2">>))
    /\ HoldsAt(data0, <<"i", "m", "a", "g", "e", ".", "t", "a", "g">>, StrV(<<"v", "1">>))
    /\ HoldsAt(data0, <<"i", "m", "a", "g", "e", ".", "n", "e", "w", "T", "a", "g">>, IntV(1))

\* C9: when the new tag coerces, in every matching node, to a value equal to
\* the tag stored there, update_image_tags returns no change record and
\* leaves the document as it was.
C9_SameTagNoChange ==
    (/\ ImageDone
     /\ \A P \in PosSet(data0) :
           /\ MatchesAt(data0, P, <<"r", "e", "p", "o", "s", "i", "t", "o", "r", "y">>, <<"t", "a", "g">>)
                => PyEq(ValueOf(GetPos(data0, P), <<"t", "a", "g">>),
                        Coerce(new_tag, ValueOf(GetPos(data0, P), <<"t", "a", "g">>)))
           /\ MatchesAt(data0, P, <<"n", "a", "m", "e">>, <<"n", "e", "w", "T", "a", "g">>)
                => PyEq(ValueOf(GetPos(data0, P), <<"n", "e", "w", "T", "a", "g">>),
                        Coerce(new_tag, ValueOf(GetPos(data0, P), <<"n", "e", "w", "T", "a", "g">>))))
    => changes = <<>> /\ data = data0

\* a matching node whose tag is the integer 1, given the new tag "1"
C9_Witness ==
    /\ ImageDone /\ new_tag = <<"1">> /\ changes = <<>>
    /\ \E P \in PosSet(data0) :
          /\ MatchesAt(data0, P, <<"r", "e", "p", "o", "s", "i", "t", "o", "r", "y">>, <<"t", "a", "g">>)
          /\ ValueOf(GetPos(data0, P), <<"t", "a", "g">>) = IntV(1)

-----------------------------------------------------------------------------
(* load_yaml, dump_yaml: indentation *)

\* str.splitlines(): the pieces between line feeds, no empty last piece
DropLastEmpty(ls) == IF ls[Len(ls)] = <<>> THEN SubSeq(ls, 1, Len(ls) - 1) ELSE ls
SplitLines(text) == DropLastEmpty(Split(text, "\n"))

StartsWith(t, prefix) == Len(prefix) <= Len(t) /\ SubSeq(t, 1, Len(prefix)) = prefix
HasColon(t) == \E j \in 1..Len(t) : t[j] = ":"
\* len(line) - len(line.lstrip())
IndentOf(line) == Len(line) - Len(LStrip(line))
\* `not stripped or stripped.startswith("#")`
BlankOrComment(line) == LStrip(line) = <<>> \/ StartsWith(LStrip(line), <<"#">>)

\* mapping_indent = 2
DefaultMappingIndent == 2

\* `for j in range(i - 1, -1, -1)`: the first line above that is neither blank
\* nor a comment, 0 when there is none (the loop ends at that line: both
\* branches break)
RECURSIVE PrevLine(_, _)
PrevLine(lines, j) ==
    IF j = 0 THEN 0
    ELSE IF BlankOrComment(lines[j]) THEN PrevLine(lines, j - 1)
    ELSE j

\* the body of the inner loop at the line j it stops at
ParentDelta(lines, k, j, m) ==
    IF j = 0 THEN m
    ELSE IF /\ HasColon(LStrip(lines[j]))
            /\ ~StartsWith(LStrip(lines[j]), <<"-">>)
            /\ IndentOf(lines[j]) < IndentOf(lines[k])
    THEN IndentOf(lines[k]) - IndentOf(lines[j])
    ELSE m

\* the body of the outer loop at line k: mapping_indent after it
IndentAfterLine(lines, k, m) ==
    IF BlankOrComment(lines[k]) \/ StartsWith(LStrip(lines[k]), <<"-">>) THEN m
    ELSE IF ~HasColon(LStrip(lines[k])) THEN m
    ELSE ParentDelta(lines, k, PrevLine(lines, k - 1), m)

RECURSIVE DetectFrom(_, _, _)
\* The outer loop left at the first line that sets mapping_indent
DetectFromFirst(lines, k, m) ==
    IF k > Len(lines) THEN m
    ELSE IF IndentAfterLine(lines, k, m) # m THEN IndentAfterLine(lines, k, m)
    ELSE DetectFrom(lines, k + 1, m)
\* `for i, line in enumerate(lines)` from line k on
DetectFrom(lines, k, m) ==
    IF k > Len(lines) THEN m
    ELSE DetectFrom(lines, k + 1, IndentAfterLine(lines, k, m))

\* sequence_indent = mapping_indent + 2; offset = mapping_indent
IndentTriple(m) == [mapping |-> m, sequence |-> m + 2, offset |-> m]

\* _detect_indentation(content)
DetectIndentation(text) ==
    IndentTriple(DetectFrom(SplitLines(text), 1, DefaultMappingIndent))

\* A line `key:` that opens a nested block
Opens(line) ==
    /\ ~BlankOrComment(line)
    /\ ~StartsWith(LStrip(line), <<"-">>)
    /\ LStrip(line)[Len(LStrip(line))] = ":"

\* The parent of line k in the tree y.load builds from block-style text: the
\* nearest line above that opens a block and is indented less (a sequence item
\* may stand in the column of its parent key); 0 at the top level.
RECURSIVE ParentOf(_, _, _)
ParentOf(lines, k, j) ==
    IF j = 0 THEN 0
    ELSE IF /\ Opens(lines[j])
            /\ \/ IndentOf(lines[j]) < IndentOf(lines[k])
               \/ /\ StartsWith(LStrip(lines[k]), <<"-">>)
                  /\ IndentOf(lines[j]) = IndentOf(lines[k])
    THEN j
    ELSE ParentOf(lines, k, j - 1)

\* data = y.load(StringIO(content)) on a text of nested block mappings and
\* block sequences of plain scalars: one entry per line, the line without its
\* indentation, with the line of its parent node.
LoadEntries(text) ==
    [k \in 1..Len(SplitLines(text)) |->
        [kind   |-> IF StartsWith(LStrip(SplitLines(text)[k]), <<"-">>)
                    THEN "item" ELSE "key",
         text   |-> LStrip(SplitLines(text)[k]),
         parent |-> ParentOf(SplitLines(text), k, k - 1)]]

Spaces(n) == [j \in 1..n |-> " "]

\* The column the emitter of yaml_instance writes an entry at: a key of a
\* nested mapping `mapping` columns right of its parent key, the dash of a
\* sequence `offset` columns right of its parent key.
RECURSIVE ColumnOf(_, _, _)
ColumnOf(ents, k, ind) ==
    IF ents[k].parent = 0
    THEN IF ents[k].kind = "item" THEN ind.offset ELSE 0
    ELSE ColumnOf(ents, ents[k].parent, ind)
         + (IF ents[k].kind = "item" THEN ind.offset ELSE ind.mapping)

\* yaml_instance.dump(data, f) from entry k on
RECURSIVE DumpFrom(_, _, _)
DumpFrom(ents, k, ind) ==
    IF k > Len(ents) THEN <<>>
    ELSE Spaces(ColumnOf(ents, k, ind)) \o ents[k].text \o <<"\n">>
         \o DumpFrom(ents, k + 1, ind)

\* The indentation widths of the texts tried
MaxIndent == 4

Line(n, t) == Spaces(n) \o t \o <<"\n">>

\* two nested blocks, indented by w1 and by w2
TwoBlocks(w1, w2) ==
    Line(0, <<"a", ":">>) \o Line(w1, <<"b", ":", " ", "1">>) \o Line(0, <<"c", ":">>) \o Line(w2, <<"d", ":", " ", "2">>)
\* three levels, indented by w1 and then by w2, with a comment and a blank line
ThreeLevels(w1, w2) ==
    Line(0, <<"#", " ", "t", "o", "p">>) \o Line(0, <<"a", ":">>) \o Line(w1, <<"b", ":">>) \o Line(w1 + w2, <<"c", ":", " ", "1">>)
    \o <<"\n">> \o Line(0, <<"e", ":", " ", "2">>)
\* a nested block indented by w and a sequence whose dashes are in column d
WithSequence(w, d) ==
    Line(0, <<"a", "p", "p", ":">>) \o Line(w, <<"n", "a", "m", "e", ":", " ", "x">>) \o Line(0, <<"i", "t", "e", "m", "s", ":">>)
    \o Line(d, <<"-", " ", "p">>) \o Line(d, <<"-", " ", "q">>)
\* three levels and a key back at the middle level
Dedent(w1, w2) ==
    Line(0, <<"a", ":">>) \o Line(w1, <<"b", ":">>) \o Line(w1 + w2, <<"c", ":", " ", "1">>)
    \o Line(w1, <<"d", ":", " ", "2">>)
FlatText == Line(0, <<"a", ":", " ", "1">>) \o Line(0, <<"b", ":", " ", "2">>)

YamlTexts ==
    {TwoBlocks(w1, w2) : w1 \in 1..MaxIndent, w2 \in 1..MaxIndent}
    \cup {ThreeLevels(w1, w2) : w1 \in 1..MaxIndent, w2 \in 1..MaxIndent}
    \cup {WithSequence(w, d) : w \in 1..MaxIndent, d \in 0..MaxIndent}
    \cup {Dedent(w1, w2) : w1 \in 1..MaxIndent, w2 \in 1..MaxIndent}
    \cup {FlatText}

InitRoundTrip ==
    /\ IdleMain /\ IdleTools
    /\ op = "load_yaml"
    /\ status = "running"
    /\ err = NoErr
    /\ content \in YamlTexts
    /\ entries = <<>> /\ indent = NoIndent /\ dumped = <<>>
    /\ data = NullV /\ data0 = NullV
    /\ keys = <<>> /\ values = <<>> /\ i = 0 /\ changes = <<>> /\ last = NoLast
    /\ image_name = <<>> /\ new_tag = <<>> /\ existing = NullV /\ coerced = NullV

\* load_yaml(path): detect the indentation, configure the serializer, load
LoadYaml ==
    /\ op = "load_yaml" /\ status = "running"
    /\ indent' = DetectIndentation(content)
    /\ entries' = LoadEntries(content)
    /\ op' = "dump_yaml"
    /\ UNCHANGED <<mainVars, toolVars>>
    /\ UNCHANGED <<status, err, data, data0, keys, values, i, changes, last,
                   image_name, new_tag, existing, coerced, content, dumped>>

\* dump_yaml(data, path, yaml_instance) of the unmodified document
DumpYaml ==
    /\ op = "dump_yaml" /\ status = "running"
    /\ dumped' = DumpFrom(entries, 1, indent)
    /\ status' = "done"
    /\ UNCHANGED <<mainVars, toolVars>>
    /\ UNCHANGED <<op, err, data, data0, keys, values, i, changes, last, image_name,
                   new_tag, existing, coerced, content, entries, indent>>

NextRoundTrip == LoadYaml \/ DumpYaml

SpecRoundTrip == InitRoundTrip /\ [][NextRoundTrip]_vars

\* C10: dumping the unmodified document that load_yaml returned, with the
\* serializer it returned, writes the text that was loaded, byte for byte.
C10_RoundTrip ==
    (op = "dump_yaml" /\ status = "done") => dumped = content

-----------------------------------------------------------------------------
(* inputs.py: parse_inputs *)

\* str.upper of one character
UpperChar(c) ==
    CASE c = "a" -> "A" [] c = "b" -> "B" [] c = "c" -> "C" [] c = "d" -> "D"
      [] c = "e" -> "E" [] c = "f" -> "F" [] c = "g" -> "G" [] c = "h" -> "H"
      [] c = "i" -> "I" [] c = "j" -> "J" [] c = "k" -> "K" [] c = "l" -> "L"
      [] c = "m" -> "M" [] c = "n" -> "N" [] c = "o" -> "O" [] c = "p" -> "P"
      [] c = "q" -> "Q" [] c = "r" -> "R" [] c = "s" -> "S" [] c = "t" -> "T"
      [] c = "u" -> "U" [] c = "v" -> "V" [] c = "w" -> "W" [] c = "x" -> "X"
      [] c = "y" -> "Y" [] c = "z" -> "Z" [] OTHER -> c

Upper(t) == [j \in 1..Len(t) |-> UpperChar(t[j])]

\* [f(x) for x in xs if x.strip()], f = str.strip
RECURSIVE StripEach(_)
StripEach(xs) ==
    IF xs = <<>> THEN <<>>
    ELSE IF Strip(Head(xs)) = <<>> THEN StripEach(Tail(xs))
    ELSE <<Strip(Head(xs))>> \o StripEach(Tail(xs))

\* _get(name, default): the variable when it is set and not empty
Get(value, default) == IF value # <<>> THEN value ELSE default

\* _parse_bool(value)
ParseBool(value) == Lower(Strip(value)) \in TrueTexts

\* _parse_lines(value)
ParseLines(value) ==
    IF Strip(value) = <<>> THEN <<>> ELSE StripEach(SplitLines(Strip(value)))

\* _parse_csv(value)
ParseCsv(value) ==
    IF Strip(value) = <<>> THEN <<>> ELSE StripEach(Split(value, ","))

ModeKey == <<"k", "e", "y">>
ModeImage == <<"i", "m", "a", "g", "e">>
MergeMethods == {<<"M", "E", "R", "G", "E">>, <<"S", "Q", "U", "A", "S", "H">>, <<"R", "E", "B", "A", "S", "E">>}

\* mode = _get("mode", default="key").strip().lower()
ModeOf(e) == Lower(Strip(Get(e.mode, ModeKey)))
\* merge_method = _get("merge_method", default="SQUASH").strip().upper()
MergeMethodOf(e) == Upper(Strip(Get(e.merge_method, <<"S", "Q", "U", "A", "S", "H">>)))

\* The comparison of the two lengths left out
InputErrorOfAnyCount(e) ==
    IF e.files = <<>> THEN "files is required"
    ELSE IF ParseLines(e.files) = <<>> THEN "files"
    ELSE IF ModeOf(e) \notin {ModeKey, ModeImage} THEN "mode"
    ELSE IF ModeOf(e) = ModeKey /\ ParseLines(e.keys) = <<>> THEN "keys"
    ELSE IF ModeOf(e) = ModeKey /\ ParseLines(e.values) = <<>> THEN "values"
    ELSE IF ModeOf(e) = ModeImage /\ e.image_name = <<>> THEN "image_name"
    ELSE IF ModeOf(e) = ModeImage /\ e.image_tag = <<>> THEN "image_tag"
    ELSE IF MergeMethodOf(e) \notin MergeMethods THEN "merge_method"
    ELSE ""

\* The InputError parse_inputs raises on the environment e: the input its
\* message names, "" when it raises none.  The checks in the order of the code.
InputErrorOf(e) ==
    IF e.files = <<>> THEN "files is required"
    ELSE IF ParseLines(e.files) = <<>> THEN "files"
    ELSE IF ModeOf(e) \notin {ModeKey, ModeImage} THEN "mode"
    ELSE IF ModeOf(e) = ModeKey /\ ParseLines(e.keys) = <<>> THEN "keys"
    ELSE IF ModeOf(e) = ModeKey /\ ParseLines(e.values) = <<>> THEN "values"
    ELSE IF ModeOf(e) = ModeKey
            /\ Len(ParseLines(e.keys)) # Len(ParseLines(e.values))
    THEN "keys and values"
    ELSE IF ModeOf(e) = ModeImage /\ e.image_name = <<>> THEN "image_name"
    ELSE IF ModeOf(e) = ModeImage /\ e.image_tag = <<>> THEN "image_tag"
    ELSE IF MergeMethodOf(e) \notin MergeMethods THEN "merge_method"
    ELSE ""

\* return ActionInputs(...)
ActionInputs(e) ==
    [files             |-> ParseLines(e.files),
     mode              |-> ModeOf(e),
     keys              |-> ParseLines(e.keys),
     values            |-> ParseLines(e.values),
     image_name        |-> e.image_name,
     image_tag         |-> e.image_tag,
     create_pr         |-> ParseBool(Get(e.create_pr, <<"t", "r", "u", "e">>)),
     target_branch     |-> e.target_branch,
     pr_branch         |-> e.pr_branch,
     pr_title          |-> Get(e.pr_title, <<"c", "h", "o", "r", "e", ":", " ", "u", "p", "d", "a", "t", "e", " ", "Y", "A", "M", "L", " ", "v", "a", "l", "u", "e", "s">>),
     pr_body           |-> e.pr_body,
     pr_labels         |-> ParseCsv(e.pr_labels),
     pr_reviewers      |-> ParseCsv(e.pr_reviewers),
     commit_message    |-> Get(e.commit_message, <<"c", "h", "o", "r", "e", ":", " ", "u", "p", "d", "a", "t", "e", " ", "Y", "A", "M", "L", " ", "v", "a", "l", "u", "e", "s">>),
     token             |-> e.token,
     auto_merge        |-> ParseBool(Get(e.auto_merge, <<"f", "a", "l", "s", "e">>)),
     merge_method      |-> MergeMethodOf(e),
     dry_run           |-> ParseBool(Get(e.dry_run, <<"f", "a", "l", "s", "e">>)),
     git_user_name     |-> Get(e.git_user_name, <<"g", "i", "t", "h", "u", "b", "-", "a", "c", "t", "i", "o", "n", "s", "[", "b", "o", "t", "]">>),
     git_user_email    |-> Get(e.git_user_email,
                               <<"4", "1", "8", "9", "8", "2", "8", "2", "+", "g", "i", "t", "h", "u", "b", "-", "a", "c", "t", "i", "o", "n", "s", "[", "b", "o", "t", "]">>
                               \o <<"@", "u", "s", "e", "r", "s", ".", "n", "o", "r", "e", "p", "l", "y", ".", "g", "i", "t", "h", "u", "b", ".", "c", "o", "m">>),
     github_repository |-> e.GITHUB_REPOSITORY]

\* parse_inputs(): the InputError raised, or the ActionInputs returned
ParseInputs(e) ==
    IF InputErrorOf(e) # ""
    THEN [error |-> InputErrorOf(e), value |-> <<>>]
    ELSE [error |-> "", value |-> ActionInputs(e)]

-----------------------------------------------------------------------------
(* __main__.py: main *)

\* update_keys(d, keys, values) from pair k on, changes the records so far:
\* [err, changes, data]
RECURSIVE UpdateKeysFrom(_, _, _, _, _)
UpdateKeysNext(u, ks, vs, k, chs) ==
    IF u.err # NoErr THEN [err |-> u.err, changes |-> chs, data |-> u.data]
    ELSE UpdateKeysFrom(u.data, ks, vs, k + 1,
                        IF u.changed
                        THEN Append(chs, [key |-> ks[k], old |-> u.old, new |-> u.new])
                        ELSE chs)
UpdateKeysFrom(d, ks, vs, k, chs) ==
    IF k > Len(ks) \/ k > Len(vs) THEN [err |-> NoErr, changes |-> chs, data |-> d]
    ELSE UpdateKeysNext(UpdatePair(d, ks[k], vs[k]), ks, vs, k, chs)

\* changes = update_keys(data, keys, values)
UpdateKeys(d, ks, vs) == UpdateKeysFrom(d, ks, vs, 1, <<>>)

\* changes = update_image_tags(data, image_name, image_tag)
UpdateImages(d, name, tag) ==
    [err |-> NoErr,
     changes |-> WalkImageTags(d, name, tag, <<>>).changes,
     data |-> WalkImageTags(d, name, tag, <<>>).node]

\* load_yaml(path) of a file f = [exists, text, doc]: the tuple
\* (data, y, content)
LoadYaml3(f) == TupleV(<<f.doc, YamlV(DetectIndentation(f.text)), StrV(f.text)>>)

\* `data is None`
IsNone(x) == x.kind = "null"

\* The update call of main on what load_yaml returned
UpdateCall(inp, loaded) ==
    IF inp.mode = ModeKey THEN UpdateKeys(loaded, inp.keys, inp.values)
    ELSE UpdateImages(loaded, inp.image_name, inp.image_tag)

\* "\n".join(xs)
RECURSIVE Join(_)
Join(xs) ==
    IF xs = <<>> THEN <<>>
    ELSE IF Len(xs) = 1 THEN xs[1]
    ELSE xs[1] \o <<"\n">> \o Join(Tail(xs))

\* The number of files listed in INPUT_FILES
MaxFiles == 2

PathName(k) == <<"f", DigitChar(k)>> \o <<".", "y", "a", "m", "l">>

\* the paths 1..n, one per line
RECURSIVE FilesText(_)
FilesText(n) ==
    IF n = 0 THEN <<>>
    ELSE IF n = 1 THEN PathName(1)
    ELSE FilesText(n - 1) \o <<"\n">> \o PathName(n)

FileMissing == [exists |-> FALSE, text |-> <<>>, doc |-> NullV]
\* app: {version: v1}
FileApp ==
    [exists |-> TRUE, text |-> <<"a", "p", "p", ":", "\n", " ", " ", "v", "e", "r", "s", "i", "o", "n", ":", " ", "v", "1", "\n">>,
     doc |-> MapV(<<E(<<"a", "p", "p">>, MapV(<<E(<<"v", "e", "r", "s", "i", "o", "n">>, StrV(<<"v", "1">>))>>))>>)]
\* image: {repository: org/web, tag: v1}
FileImage ==
    [exists |-> TRUE, text |-> <<"i", "m", "a", "g", "e", ":", "\n", " ", " ", "r", "e", "p", "o", "s", "i", "t", "o", "r", "y", ":", " ", "o", "r", "g", "/", "w", "e", "b", "\n", " ", " ", "t", "a", "g", ":", " ", "v", "1", "\n">>,
     doc |-> MapV(<<E(<<"i", "m", "a", "g", "e">>, MapV(<<E(<<"r", "e", "p", "o", "s", "i", "t", "o", "r", "y">>, StrV(<<"o", "r", "g", "/", "w", "e", "b">>)),
                                      E(<<"t", "a", "g">>, StrV(<<"v", "1">>))>>))>>)]
FileEmpty == [exists |-> TRUE, text |-> <<>>, doc |-> NullV]
FileComment == [exists |-> TRUE, text |-> <<"#", " ", "n", "o", "n", "e", "\n">>, doc |-> NullV]
\* a document that is one plain scalar, without a line end
FileWord == [exists |-> TRUE, text |-> <<"a", "p", "p">>, doc |-> StrV(<<"a", "p", "p">>)]

FilePool == {FileMissing, FileApp, FileImage, FileEmpty, FileComment, FileWord}

\* What git and the GitHub API answer: the default branch of the remote, the
\* SHA of the commit, the branch name _generate_branch_name makes, the pull
\* request created, and the call that fails ("" when none does)
World(nid, ge, ae) ==
    [default_branch |-> <<"m", "a", "i", "n">>, sha |-> <<"a", "b", "c", "1", "2", "3">>,
     generated_branch |-> <<"y", "a", "m", "l", "-", "u", "p", "d", "a", "t", "e", "/", "g">>,
     pr |-> [number |-> 42, html_url |-> <<"p", "u", "l", "l", "/", "4", "2">>, node_id |-> nid],
     git_error |-> ge, api_error |-> ae]

WorldPool ==
    {World(<<"P", "R", "_", "1">>, "", ""), World(<<>>, "", ""),
     World(<<"P", "R", "_", "1">>, "git_ops.create_branch", ""),
     World(<<"P", "R", "_", "1">>, "", "github_api.create_pull_request"),
     World(<<"P", "R", "_", "1">>, "", "github_api.add_labels")}

\* The locals of main and what it has done so far, as one record
Locals ==
    [file_no |-> file_no, all_changes |-> all_changes,
     changed_files |-> changed_files, all_diffs |-> all_diffs,
     outputs |-> outputs, log |-> log, calls |-> calls, rc |-> rc, raised |-> raised]

\* main has returned or an exception has left it
Ended(m) == m.rc # -1 \/ m.raised # ""

\* outputs.set_output(name, value)
Out(m, name, value) ==
    IF Ended(m) THEN m
    ELSE [m EXCEPT !.outputs = Append(@, [name |-> name, value |-> value])]
\* outputs.log_error / log_warning / log_group / log_info
Log(m, level, msg, about) ==
    IF Ended(m) THEN m
    ELSE [m EXCEPT !.log = Append(@, [level |-> level, msg |-> msg, about |-> about])]
\* return code
Return(m, code) == IF Ended(m) THEN m ELSE [m EXCEPT !.rc = code]
\* an exception that main does not catch
Escape(m, exc) == IF Ended(m) THEN m ELSE [m EXCEPT !.raised = exc]

Call(name, x, y, z) == [op |-> name, x |-> x, y |-> y, z |-> z]
Called(m, c) == [m EXCEPT !.calls = Append(@, c)]

\* a call of git_ops: GitError is not caught by main
GitCall(m, w, c) ==
    IF Ended(m) THEN m
    ELSE IF w.git_error = c.op THEN Escape(Called(m, c), "GitError")
    ELSE Called(m, c)

\* a call of github_api inside the try of main:
\* except GitHubAPIError: log_error, log_endgroup, return 1
ApiCall(m, w, c) ==
    IF Ended(m) THEN m
    ELSE IF w.api_error = c.op
    THEN Return(Log(Called(m, c), "error", "GitHub API error", <<>>), 1)
    ELSE Called(m, c)

\* the file at a path
FileAt(files, path) == IF path \in DOMAIN files THEN files[path] ELSE FileMissing

\* if not file_path.exists(): log_error(...); return 1
FileNotFound(m, path) == Return(Log(m, "error", "File not found", path), 1)

\* if data is None: log_warning(...); continue
SkipEmpty(m, path) ==
    [Log(m, "warning", "Skipping empty YAML file", path) EXCEPT !.file_no = @ + 1]

\* The error logged and the loop going on to the next file: `continue` for
\* `return 1`
UpdateFailedContinues(m, path) ==
    [Log(m, "error", "Update failed", path) EXCEPT !.file_no = @ + 1]
\* except KeyError: log_error(...); return 1
UpdateFailed(m, path) == Return(Log(m, "error", "Update failed", path), 1)

\* diff_yaml(file_path, original_content, data): updater.diff_yaml takes a fourth
\* argument, yaml_instance, so the call raises TypeError
DiffYamlCall == TypeErr
\* dump_yaml(data, file_path): updater.dump_yaml takes a third argument,
\* yaml_instance, so the call raises TypeError
DumpYamlCall == TypeErr

\* `if changes:` all_changes.extend(changes); changed_files.append(...);
\* file_diff = diff_yaml(...)
RecordChanges(m, path, chs) ==
    Escape([m EXCEPT !.all_changes = @ \o chs, !.changed_files = Append(@, path)],
           DiffYamlCall.type)

\* else: log_info("No changes needed ..."); the next file
NoChanges(m, path) ==
    [Log(m, "info", "No changes needed", path) EXCEPT !.file_no = @ + 1]

\* the try around the update call and what follows it, u the outcome of the call
AfterUpdate(m, path, u) ==
    IF u.err.type = "KeyError" THEN UpdateFailed(m, path)
    ELSE IF u.err # NoErr THEN Escape(m, u.err.type)
    ELSE IF u.changes # <<>> THEN RecordChanges(m, path, u.changes)
    ELSE NoChanges(m, path)

\* data = load_yaml(file_path) and the rest of the loop body
AfterLoad(m, inp, path, loaded) ==
    IF IsNone(loaded) THEN SkipEmpty(m, path)
    ELSE AfterUpdate(m, path, UpdateCall(inp, loaded))

\* One iteration of `for file_path_str in inputs.files` on file f at path
ProcessFile(m, inp, path, f) ==
    IF ~f.exists THEN FileNotFound(m, path)
    ELSE AfterLoad(Log(m, "group", "Processing", path), inp, path, LoadYaml3(f))

\* parts = inputs.github_repository.split("/", 1): <<owner, repo>>
RECURSIVE SlashPos(_, _)
SlashPos(t, j) ==
    IF j > Len(t) THEN 0 ELSE IF t[j] = "/" THEN j ELSE SlashPos(t, j + 1)
OwnerRepo(repository) ==
    IF SlashPos(repository, 1) = 0 THEN <<<<>>, <<>>>>
    ELSE <<SubSeq(repository, 1, SlashPos(repository, 1) - 1),
           SubSeq(repository, SlashPos(repository, 1) + 1, Len(repository))>>

\* target_branch = inputs.target_branch or git_ops.get_default_branch()
TargetBranch(inp, w) ==
    IF inp.target_branch # <<>> THEN inp.target_branch ELSE w.default_branch
\* pr_branch = inputs.pr_branch or _generate_branch_name(inputs)
PrBranch(inp, w) == IF inp.pr_branch # <<>> THEN inp.pr_branch ELSE w.generated_branch
CommitBranch(inp, w) == IF inp.create_pr THEN PrBranch(inp, w) ELSE TargetBranch(inp, w)

\* git_ops.configure(...)
Configure(m, inp, w) ==
    GitCall(m, w, Call("git_ops.configure", inp.git_user_name, inp.github_repository,
                       <<>>))
\* ... or git_ops.get_default_branch()
DefaultBranch(m, inp, w) ==
    IF inp.target_branch # <<>> THEN m
    ELSE GitCall(m, w, Call("git_ops.get_default_branch", <<>>, <<>>, <<>>))
\* if inputs.create_pr: git_ops.create_branch(pr_branch, target_branch)
CreateBranch(m, inp, w) ==
    IF ~inp.create_pr THEN m
    ELSE GitCall(m, w, Call("git_ops.create_branch", PrBranch(inp, w),
                            TargetBranch(inp, w), <<>>))
\* sha = git_ops.commit_and_push(changed_files, commit_message, commit_branch)
CommitAndPush(m, inp, w) ==
    Out(GitCall(m, w, Call("git_ops.commit_and_push", m.changed_files,
                           CommitBranch(inp, w), inp.commit_message)),
        "commit_sha", w.sha)

\* pr_data = github_api.create_pull_request(...); the outputs pr_number, pr_url
CreatePullRequest(m, inp, w) ==
    Out(Out(ApiCall(m, w, Call("github_api.create_pull_request", PrBranch(inp, w),
                               TargetBranch(inp, w), OwnerRepo(inp.github_repository))),
            "pr_number", IntText(w.pr.number)),
        "pr_url", w.pr.html_url)
\* if inputs.pr_labels: github_api.add_labels(...)
AddLabels(m, inp, w) ==
    IF inp.pr_labels = <<>> THEN m
    ELSE ApiCall(m, w, Call("github_api.add_labels", w.pr.number, inp.pr_labels,
                            OwnerRepo(inp.github_repository)))
\* if inputs.pr_reviewers: github_api.request_reviewers(...)
RequestReviewers(m, inp, w) ==
    IF inp.pr_reviewers = <<>> THEN m
    ELSE ApiCall(m, w, Call("github_api.request_reviewers", w.pr.number,
                            inp.pr_reviewers, OwnerRepo(inp.github_repository)))
\* if inputs.auto_merge and pr_node_id: github_api.enable_auto_merge(...)
EnableAutoMerge(m, inp, w) ==
    IF ~(inp.auto_merge /\ w.pr.node_id # <<>>) THEN m
    ELSE ApiCall(m, w, Call("github_api.enable_auto_merge", w.pr.node_id,
                            inp.merge_method, <<>>))

\* the three outputs set to "" on the returns that make no commit
NoCommitOutputs(m) ==
    Out(Out(Out(m, "pr_number", <<>>), "pr_url", <<>>), "commit_sha", <<>>)

\* --- Create PR ---
PullRequest(m, inp, w) ==
    IF inp.create_pr
    THEN EnableAutoMerge(RequestReviewers(AddLabels(CreatePullRequest(m, inp, w),
                                                    inp, w), inp, w), inp, w)
    ELSE Out(Out(m, "pr_number", <<>>), "pr_url", <<>>)

\* --- Git operations --- and what follows, to the return
GitOperations(m, inp, w) ==
    Return(PullRequest(CommitAndPush(CreateBranch(DefaultBranch(Configure(m, inp, w),
                                                                inp, w), inp, w),
                                     inp, w), inp, w), 0)

\* str(has_changes).lower()
HasChangesText(m) == Lower(PyStr(BoolV(Len(m.changed_files) > 0)))

\* --- Write outputs ---
WriteOutputs(m) ==
    Out(Out(Out(m, "changed", HasChangesText(m)),
            "changed_files", Join(m.changed_files)),
        "diff", Join(m.all_diffs))

\* main from the end of the loop over the files to its return
Finish(m, inp, w) ==
    IF Len(m.changed_files) = 0 THEN Return(NoCommitOutputs(WriteOutputs(m)), 0)
    ELSE IF inp.dry_run THEN Return(NoCommitOutputs(WriteOutputs(m)), 0)
    ELSE GitOperations(WriteOutputs(m), inp, w)

\* The environment with every input unset
EnvBase ==
    [files |-> <<>>, mode |-> <<>>, keys |-> <<>>, values |-> <<>>,
     image_name |-> <<>>, image_tag |-> <<>>, create_pr |-> <<>>,
     target_branch |-> <<>>, pr_branch |-> <<>>, pr_title |-> <<>>, pr_body |-> <<>>,
     pr_labels |-> <<>>, pr_reviewers |-> <<>>, commit_message |-> <<>>,
     token |-> <<"t">>, auto_merge |-> <<>>, merge_method |-> <<>>, dry_run |-> <<>>,
     git_user_name |-> <<>>, git_user_email |-> <<>>,
     GITHUB_REPOSITORY |-> <<"o", "w", "n", "e", "r", "/", "r", "e", "p", "o">>]

\* Environments that try the checks of parse_inputs
ValidationEnvs ==
    {[EnvBase EXCEPT !.files = f, !.mode = m, !.keys = k, !.values = v,
                     !.image_name = n, !.image_tag = t, !.merge_method = mm] :
        f \in {<<>>, <<" ", "\n">>, FilesText(1)},
        m \in {<<>>, <<" ", "I", "m", "a", "g", "e">>, <<"b", "a", "d">>},
        k \in {<<>>, <<"a", "p", "p", ".", "v", "e", "r", "s", "i", "o", "n">>, <<"a", "p", "p", ".", "v", "e", "r", "s", "i", "o", "n", "\n", "\n", "a", "p", "p", ".", "n", "a", "m", "e", " ">>},
        v \in {<<>>, <<"v", "2">>},
        n \in {<<>>, <<"w", "e", "b">>},
        t \in {<<>>, <<"v", "2">>},
        mm \in {<<>>, <<" ", "r", "e", "b", "a", "s", "e">>, <<"b", "a", "d">>}}

\* The updates asked for: in key mode (a path of two segments with a new or
\* with the present value, a path of one segment), in image mode (a new or the
\* present tag)
Jobs ==
    {[EnvBase EXCEPT !.keys = k, !.values = <<"v", "2">>] : k \in {<<"a", "p", "p", ".", "v", "e", "r", "s", "i", "o", "n">>, <<"a", "p", "p">>}}
    \cup {[EnvBase EXCEPT !.keys = <<"a", "p", "p", ".", "v", "e", "r", "s", "i", "o", "n">>, !.values = <<"v", "1">>]}
    \cup {[EnvBase EXCEPT !.mode = <<"i", "m", "a", "g", "e">>, !.image_name = <<"w", "e", "b">>, !.image_tag = t] :
            t \in {<<"v", "1">>, <<"v", "2">>}}

\* with and without the inputs of the pull request
Profiled(e) ==
    {e, [e EXCEPT !.target_branch = <<"r", "e", "l">>, !.pr_branch = <<"u", "p", "d">>, !.pr_labels = <<"a", ",", " ", "b">>,
                  !.pr_reviewers = <<"a", "l", "i", "c", "e">>, !.auto_merge = <<"t", "r", "u", "e">>]}

\* the runs over the first n paths
RunEnvs(n) ==
    UNION {Profiled([e EXCEPT !.files = FilesText(n), !.dry_run = d, !.create_pr = c]) :
             e \in Jobs, d \in {<<>>, <<"t", "r", "u", "e">>}, c \in {<<>>, <<"f", "a", "l", "s", "e">>}}

\* the updater is not running on its own
IdleUpdater ==
    /\ op = "main" /\ status = "running" /\ err = NoErr
    /\ data = NullV /\ data0 = NullV
    /\ keys = <<>> /\ values = <<>> /\ i = 0 /\ changes = <<>> /\ last = NoLast
    /\ Idle

InitMain ==
    /\ IdleUpdater /\ IdleTools
    /\ \/ /\ environ \in ValidationEnvs
          /\ fs = [p \in {PathName(1)} |-> FileImage]
          /\ world = World(<<>>, "", "")
       \/ \E n \in 1..MaxFiles :
             /\ environ \in RunEnvs(n)
             /\ fs \in [{PathName(k) : k \in 1..n} -> FilePool]
          /\ world \in WorldPool
    /\ inputs = <<>>
    /\ pc = "start" /\ file_no = 0
    /\ all_changes = <<>> /\ changed_files = <<>> /\ all_diffs = <<>>
    /\ outputs = <<>> /\ log = <<>> /\ calls = <<>>
    /\ rc = -1 /\ raised = ""

\* main's state after a step that left the locals as m
Becomes(m) ==
    /\ file_no' = m.file_no
    /\ all_changes' = m.all_changes
    /\ changed_files' = m.changed_files
    /\ all_diffs' = m.all_diffs
    /\ outputs' = m.outputs
    /\ log' = m.log
    /\ calls' = m.calls
    /\ rc' = m.rc
    /\ raised' = m.raised
    /\ pc' = IF Ended(m) THEN "done" ELSE pc

\* try: inputs = parse_inputs() except InputError: log_error; return 1
MainParseInputs ==
    /\ pc = "start"
    /\ IF ParseInputs(environ).error # ""
       THEN /\ Becomes(Return(Log(Locals, "error", ParseInputs(environ).error, <<>>), 1))
            /\ UNCHANGED inputs
       ELSE /\ inputs' = ParseInputs(environ).value
            /\ pc' = "files"
            /\ UNCHANGED <<file_no, all_changes, changed_files, all_diffs, outputs,
                           log, calls, rc, raised>>
    /\ UNCHANGED <<environ, fs, world>>
    /\ UNCHANGED <<updaterVars, toolVars>>

\* one iteration of `for file_path_str in inputs.files`
MainProcessFile ==
    /\ pc = "files" /\ file_no < Len(inputs.files)
    /\ Becomes(ProcessFile(Locals, inputs, inputs.files[file_no + 1],
                           FileAt(fs, inputs.files[file_no + 1])))
    /\ UNCHANGED <<environ, inputs, fs, world>>
    /\ UNCHANGED <<updaterVars, toolVars>>

\* after the loop: the outputs, the git operations, the pull request, return
MainFinish ==
    /\ pc = "files" /\ file_no = Len(inputs.files)
    /\ Becomes(Finish(Locals, inputs, world))
    /\ UNCHANGED <<environ, inputs, fs, world>>
    /\ UNCHANGED <<updaterVars, toolVars>>

NextMain == MainParseInputs \/ MainProcessFile \/ MainFinish

SpecMain == InitMain /\ [][NextMain]_vars

-----------------------------------------------------------------------------
(* Properties of main *)

MainDone == op = "main" /\ pc = "done"
Parsed == inputs # <<>>
\* the k-th listed file
ListedFile(k) == FileAt(fs, inputs.files[k])
NumFiles == Len(inputs.files)

\* What the update asked for does to the document of file f: nothing on a file
\* without a document, else the update call on the document itself
FileYields(inp, f) ==
    IF IsNone(f.doc) THEN [err |-> NoErr, changes |-> <<>>, data |-> f.doc]
    ELSE UpdateCall(inp, f.doc)

\* every listed file exists and the update of its document raises nothing
NothingFails ==
    \A k \in 1..NumFiles :
        ListedFile(k).exists /\ FileYields(inputs, ListedFile(k)).err = NoErr
\* the update changes the document of some listed file
SomeFileChanges ==
    \E k \in 1..NumFiles : FileYields(inputs, ListedFile(k)).changes # <<>>

HasOutput(name, value) ==
    \E j \in 1..Len(outputs) : outputs[j] = [name |-> name, value |-> value]
Logged(level, msg, about) ==
    \E j \in 1..Len(log) : log[j] = [level |-> level, msg |-> msg, about |-> about]

\* no commit and no pull request reported
EmptyCommitOutputs ==
    /\ HasOutput("pr_number", <<>>)
    /\ HasOutput("pr_url", <<>>)
    /\ HasOutput("commit_sha", <<>>)

\* C11: a dry run in which nothing fails writes no file and makes no git or
\* pull-request call, sets `changed` to true exactly when the update changes
\* the document of some listed file, sets pr_number, pr_url and commit_sha to
\* empty and returns 0.
C11_DryRunReportsChanges ==
    (MainDone /\ Parsed /\ inputs.dry_run /\ NothingFails)
    => /\ calls = <<>>
       /\ rc = 0
       /\ HasOutput("changed", IF SomeFileChanges THEN <<"t", "r", "u", "e">> ELSE <<"f", "a", "l", "s", "e">>)
       /\ EmptyCommitOutputs

\* C12: when every listed file exists and the update changes none of them,
\* main makes no write, git or pull-request call, sets `changed` to "false",
\* the five other outputs to empty, and returns 0.
C12_NoChangeReturnsZero ==
    (MainDone /\ Parsed /\ NothingFails /\ ~SomeFileChanges)
    => /\ calls = <<>>
       /\ rc = 0
       /\ HasOutput("changed", <<"f", "a", "l", "s", "e">>)
       /\ HasOutput("changed_files", <<>>)
       /\ HasOutput("diff", <<>>)
       /\ EmptyCommitOutputs

\* the next iteration of the loop meets a file that does not exist, or the
\* update call on what load_yaml returned raises KeyError
NextFileFails ==
    /\ op = "main" /\ pc = "files" /\ file_no < NumFiles
    /\ \/ ~ListedFile(file_no + 1).exists
       \/ UpdateCall(inputs, LoadYaml3(ListedFile(file_no + 1))).err.type = "KeyError"

C14_EmptyFileSkipped ==
    (MainDone /\ Parsed /\ NothingFails)
    => /\ rc = 0
       /\ \A k \in 1..NumFiles :
             IsNone(ListedFile(k).doc)
             => /\ Logged("warning", "Skipping empty YAML file", inputs.files[k])
                /\ ~Logged("info", "No changes needed", inputs.files[k])


\* the listed paths, from the k-th on, whose document the update changes
RECURSIVE ChangedPathsFrom(_)
ChangedPathsFrom(k) ==
    IF k > NumFiles THEN <<>>
    ELSE (IF FileYields(inputs, ListedFile(k)).changes # <<>>
          THEN <<inputs.files[k]>> ELSE <<>>) \o ChangedPathsFrom(k + 1)

\* the names of the calls made, in order
OpsOf(cs) == [j \in 1..Len(cs) |-> cs[j].op]
\* the call with that name, when there is exactly one
TheCall(name) == CHOOSE c \in {calls[j] : j \in 1..Len(calls)} : c.op = name

\* a run that is to persist changes: not a dry run, nothing fails, the update
\* changes some listed file, and git and the GitHub API raise nothing
PersistingRun ==
    /\ MainDone /\ Parsed /\ ~inputs.dry_run
    /\ NothingFails /\ SomeFileChanges
    /\ world.git_error = "" /\ world.api_error = ""

\* the calls of C15, in its order
PrCallOrder ==
    [j \in 1..Len(ChangedPathsFrom(1)) |-> "dump_yaml"]
    \o <<"git_ops.configure">>
    \o (IF inputs.target_branch = <<>> THEN <<"git_ops.get_default_branch">> ELSE <<>>)
    \o <<"git_ops.create_branch", "git_ops.commit_and_push",
         "github_api.create_pull_request">>
    \o (IF inputs.pr_labels # <<>> THEN <<"github_api.add_labels">> ELSE <<>>)
    \o (IF inputs.pr_reviewers # <<>> THEN <<"github_api.request_reviewers">> ELSE <<>>)
    \o (IF inputs.auto_merge /\ world.pr.node_id # <<>>
        THEN <<"github_api.enable_auto_merge">> ELSE <<>>)

\* C15: a run that is to persist changes with create_pr set writes the changed
\* files, configures git, creates the PR branch from the target branch,
\* commits and pushes the changed files to the PR branch, creates the pull
\* request with head = PR branch and base = target branch, then adds labels,
\* requests reviewers and enables auto-merge when asked to, in this order and
\* with no other call; pr_number and pr_url carry the pull request created.
C15_PullRequestOrder ==
    (PersistingRun /\ inputs.create_pr)
    => /\ rc = 0
       /\ OpsOf(calls) = PrCallOrder
       /\ TheCall("git_ops.create_branch").x = PrBranch(inputs, world)
       /\ TheCall("git_ops.create_branch").y = TargetBranch(inputs, world)
       /\ TheCall("git_ops.commit_and_push").x = ChangedPathsFrom(1)
       /\ TheCall("git_ops.commit_and_push").y = PrBranch(inputs, world)
       /\ TheCall("github_api.create_pull_request").x = PrBranch(inputs, world)
       /\ TheCall("github_api.create_pull_request").y = TargetBranch(inputs, world)
       /\ HasOutput("pr_number", IntText(world.pr.number))
       /\ HasOutput("pr_url", world.pr.html_url)

\* C16: a run that is to persist changes with create_pr off creates no branch
\* and calls no GitHub API, commits and pushes exactly the changed files to
\* the target branch (the input, or the default branch of the remote when the
\* input is empty), sets commit_sha to the SHA of the commit, pr_number and
\* pr_url to empty, and returns 0.
C16_DirectCommit ==
    (PersistingRun /\ ~inputs.create_pr)
    => /\ rc = 0
       /\ \A j \in 1..Len(calls) :
             calls[j].op \in {"dump_yaml", "git_ops.configure",
                              "git_ops.get_default_branch", "git_ops.commit_and_push"}
       /\ \E j \in 1..Len(calls) :
             /\ calls[j].op = "git_ops.commit_and_push"
             /\ calls[j].x = ChangedPathsFrom(1)
             /\ calls[j].y = TargetBranch(inputs, world)
       /\ HasOutput("commit_sha", world.sha)
       /\ HasOutput("pr_number", <<>>)
       /\ HasOutput("pr_url", <<>>)


\* the conditions C18 puts on an ActionInputs value
ValidInputs(v) ==
    /\ v.files # <<>>
    /\ v.mode \in {<<"k", "e", "y">>, <<"i", "m", "a", "g", "e">>}
    /\ v.merge_method \in {<<"M", "E", "R", "G", "E">>, <<"S", "Q", "U", "A", "S", "H">>, <<"R", "E", "B", "A", "S", "E">>}
    /\ v.mode = <<"k", "e", "y">> => /\ v.keys # <<>> /\ v.values # <<>>
                         /\ Len(v.keys) = Len(v.values)
    /\ v.mode = <<"i", "m", "a", "g", "e">> => v.image_name # <<>> /\ v.image_tag # <<>>

\* C18: the ActionInputs that parse_inputs returned satisfies the conditions;
\* on an environment whose values violate one of them parse_inputs raises
\* InputError and main returns 1 having logged that error only, with no file
\* taken and no call made.
C18_ParsedInputsValid ==
    /\ (op = "main" /\ Parsed) => ValidInputs(inputs)
    /\ (op = "main" /\ pc # "start" /\ ~ValidInputs(ActionInputs(environ)))
       => /\ ~Parsed
          /\ pc = "done" /\ rc = 1 /\ raised = ""
          /\ Len(log) = 1 /\ log[1].level = "error"
          /\ file_no = 0 /\ calls = <<>> /\ outputs = <<>>

\* main returned 1 on two keys given with one value
C18_Witness ==
    /\ MainDone /\ ~Parsed /\ rc = 1
    /\ Len(ParseLines(environ.keys)) = 2 /\ Len(ParseLines(environ.values)) = 1
    /\ log = <<[level |-> "error", msg |-> "keys and values", about |-> <<>>]>>

-----------------------------------------------------------------------------
(* Properties of path resolution *)

\* a segment, intermediate or final, is applied to a sequence and parses as
\* an integer below zero
NegativeOnSequence(d, key_path) ==
    \E m \in 1..Len(Split(key_path, ".")) :
        /\ PrefixReaches(d, key_path, m, "seq")
        /\ IntParse(Split(key_path, ".")[m]).ok
        /\ IntParse(Split(key_path, ".")[m]).v < 0

\* C19: an iteration on a key path one of whose segments is applied to a
\* sequence and parses as a negative integer raises: it reads no element (no
\* pair completes), writes none and appends no change record.
C19_NegativeIndexFails ==
    [][(PairPending /\ NegativeOnSequence(data, keys[i + 1]))
       => /\ status' = "error"
          /\ data' = data
          /\ changes' = changes
          /\ last' = last]_vars

\* the messages of _resolve_key_path, which both end "... in path '{key_path}'"
PathResolutionErrors == {KeyNotFound, NonIntegerIndex}

\* C20: whenever update_keys has raised, the exception is the KeyError of
\* _resolve_key_path whose message carries the key path, the one kind main
\* catches.
C20_OneResolutionErrorKind ==
    (op = "update_keys" /\ status = "error") => err \in PathResolutionErrors

-----------------------------------------------------------------------------
(* Properties of the traversal of update_image_tags *)

\* the position paths of the nodes of a tree in depth-first pre-order: a node
\* before its children, the children in the order of the keys or indices
RECURSIVE PreOrder(_, _), PreOrderFrom(_, _, _)
PreOrderFrom(node, P, j) ==
    IF j > Len(node.items) THEN <<>>
    ELSE PreOrder(node.items[j].v, Append(P, j)) \o PreOrderFrom(node, P, j + 1)

PreOrder(node, P) == <<P>> \o PreOrderFrom(node, P, 1)

\* the record due for the tag under tag_key of the node at P, if any
DueRecord(d, P, name_key, tag_key) ==
    IF DueAt(d, P, name_key, tag_key)
    THEN <<[key |-> TagKeyAt(d, P, tag_key),
            old |-> ValueOf(GetPos(d, P), tag_key),
            new |-> Coerce(new_tag, ValueOf(GetPos(d, P), tag_key))]>>
    ELSE <<>>

\* the records due on document d, node by node along ps
RECURSIVE DueRecordsAlong(_, _)
DueRecordsAlong(d, ps) ==
    IF ps = <<>> THEN <<>>
    ELSE DueRecord(d, Head(ps), <<"r", "e", "p", "o", "s", "i", "t", "o", "r", "y">>, <<"t", "a", "g">>)
         \o DueRecord(d, Head(ps), <<"n", "a", "m", "e">>, <<"n", "e", "w", "T", "a", "g">>)
         \o DueRecordsAlong(d, Tail(ps))

\* a key without the dot in front of it
StripDot(t) == IF t # <<>> /\ Head(t) = "." THEN Tail(t) ELSE t

\* C21: update_image_tags visits every mapping of the document, at any depth
\* below mappings and sequences, in depth-first pre-order: after the call every
\* matching node holds the coerced new tag, and the change records are exactly
\* the records of the matching tags that differed, one each, in pre-order of
\* their nodes (a record is told by its key, its old and its new value).
C21_PreOrderTraversal ==
    ImageDone
    => /\ [k \in 1..Len(changes) |-> [changes[k] EXCEPT !.key = StripDot(@)]]
            = DueRecordsAlong(data0, PreOrder(data0, <<>>))
       /\ Len(changes) = Cardinality(DuePairs(data0))
       /\ \A P \in PosSet(data0) :
             /\ MatchesAt(data0, P, <<"r", "e", "p", "o", "s", "i", "t", "o", "r", "y">>, <<"t", "a", "g">>)
                  => PyEq(ValueOf(GetPos(data, P), <<"t", "a", "g">>),
                          Coerce(new_tag, ValueOf(GetPos(data0, P), <<"t", "a", "g">>)))
             /\ MatchesAt(data0, P, <<"n", "a", "m", "e">>, <<"n", "e", "w", "T", "a", "g">>)
                  => PyEq(ValueOf(GetPos(data, P), <<"n", "e", "w", "T", "a", "g">>),
                          Coerce(new_tag, ValueOf(GetPos(data0, P), <<"n", "e", "w", "T", "a", "g">>)))

\* four matching nodes, under nested mappings and inside two sequences, all
\* replaced, their records in document order
C21_Witness ==
    /\ ImageDone
    /\ Len(changes) = 4
    /\ changes[1].key = <<"s", "e", "r", "v", "i", "c", "e", "s", ".", "a", "p", "i", ".", "i", "m", "a", "g", "e", ".", "t", "a", "g">>
    /\ changes[2].key = <<"i", "n", "i", "t", "C", "o", "n", "t", "a", "i", "n", "e", "r", "s", ".", "0", ".", "i", "m", "a", "g", "e", ".", "t", "a", "g">>
    /\ changes[3].key = <<"i", "m", "a", "g", "e", "s", ".", "0", ".", "n", "e", "w", "T", "a", "g">>
    /\ changes[4].key = <<"i", "m", "a", "g", "e", "s", ".", "1", ".", "n", "e", "w", "T", "a", "g">>
    /\ changes[4].old = IntV(1)


\* C22: the key of every change record of update_image_tags is a dot-joined
\* path with no empty segment (so no leading dot), on a document of any shape,
\* and resolving it by the rules of update_keys reaches the value the record
\* names as new.
C22_RecordKeysResolve ==
    ImageDone
    => \A k \in 1..Len(changes) :
          /\ \A j \in 1..Len(Split(changes[k].key, ".")) :
                Split(changes[k].key, ".")[j] # <<>>
          /\ HoldsAt(data, changes[k].key, changes[k].new)

-----------------------------------------------------------------------------
(* Properties of the indentation detection *)

\* a line that holds a key: not blank, no comment, no sequence item, with a colon
IsKeyLine(line) ==
    /\ ~BlankOrComment(line)
    /\ ~StartsWith(LStrip(line), <<"-">>)
    /\ HasColon(LStrip(line))

\* the nearest key line above line k, from line j upward, that is indented
\* less than line k; 0 when there is none
RECURSIVE ShallowerKeyAbove(_, _, _)
ShallowerKeyAbove(lines, k, j) ==
    IF j = 0 THEN 0
    ELSE IF IsKeyLine(lines[j]) /\ IndentOf(lines[j]) < IndentOf(lines[k]) THEN j
    ELSE ShallowerKeyAbove(lines, k, j - 1)

\* the first nested key from line k on: the first key line with a shallower
\* key above it; 0 when the text has none
RECURSIVE FirstNestedFrom(_, _)
FirstNestedFrom(lines, k) ==
    IF k > Len(lines) THEN 0
    ELSE IF IsKeyLine(lines[k]) /\ ShallowerKeyAbove(lines, k, k - 1) # 0 THEN k
    ELSE FirstNestedFrom(lines, k + 1)

\* the indent of the first nested key relative to that shallower key
NestedDelta(lines, k) ==
    IF k = 0 THEN DefaultMappingIndent
    ELSE IndentOf(lines[k]) - IndentOf(lines[ShallowerKeyAbove(lines, k, k - 1)])

FirstNestedIndent(text) ==
    NestedDelta(SplitLines(text), FirstNestedFrom(SplitLines(text), 1))

\* C23: the indentation load_yaml detects is that of the first nested key of
\* the text (2 when there is none), whatever nested keys follow, with the
\* sequence indent 2 more than the mapping indent and the offset equal to it.
C23_FirstNestedKeyDecides ==
    (op = "dump_yaml") => indent = IndentTriple(FirstNestedIndent(content))


\* the nearest line at or above line j that is neither blank nor a comment,
\* 0 when there is none
ContentAbove(lines, j) ==
    LET S == {x \in 1..j : ~BlankOrComment(lines[x])}
    IN  IF S = {} THEN 0 ELSE CHOOSE x \in S : \A y \in S : y <= x

\* line k holds a key and the line directly above it (blank lines and
\* comments aside) holds a key indented less
NestedUnderLineAbove(lines, k) ==
    /\ IsKeyLine(lines[k])
    /\ ContentAbove(lines, k - 1) # 0
    /\ IsKeyLine(lines[ContentAbove(lines, k - 1)])
    /\ IndentOf(lines[ContentAbove(lines, k - 1)]) < IndentOf(lines[k])

\* the indent of the last such line relative to the line above it
LastNestedIndent(text) ==
    LET lines == SplitLines(text)
        S == {k \in 1..Len(lines) : NestedUnderLineAbove(lines, k)}
        k == CHOOSE x \in S : \A y \in S : y <= x
    IN  IF S = {} THEN DefaultMappingIndent
        ELSE IndentOf(lines[k]) - IndentOf(lines[ContentAbove(lines, k - 1)])

\* C23, amended: the mapping indent load_yaml detects is the indent of the
\* last key line that stands directly under a key line indented less, relative
\* to that line (2 when the text has no such line); the sequence indent is 2
\* more and the offset is equal to it.
C23_LastNestedKeyDecides ==
    (op = "dump_yaml") => indent = IndentTriple(LastNestedIndent(content))

\* a text whose first nested key is indented by 2 and whose last by 4 was
\* loaded with mapping indent 4
C23_Witness ==
    /\ op = "dump_yaml"
    /\ content = TwoBlocks(2, 4)
    /\ FirstNestedIndent(content) = 2
    /\ indent = [mapping |-> 4, sequence |-> 6, offset |-> 4]

-----------------------------------------------------------------------------
(* diff_yaml *)

\* n=3 of difflib.unified_diff
ContextLines == 3

Max(x, y) == IF x < y THEN y ELSE x
Min(x, y) == IF x < y THEN x ELSE y

\* the last line of the run from line k on of lines that all agree, or all
\* differ, in a and b
RECURSIVE RunEnd(_, _, _)
RunEnd(a, b, k) ==
    IF k < Len(a) /\ ((a[k + 1] = b[k + 1]) <=> (a[k] = b[k]))
    THEN RunEnd(a, b, k + 1)
    ELSE k

\* SequenceMatcher(None, a, b).get_opcodes() from line k on, for line lists of
\* one length in which no line occurs twice and a replaced line occurs in
\* neither list elsewhere: the matching blocks are the runs of lines kept in
\* place.  An opcode is (tag, i1, i2, j1, j2) with j1 = i1 and j2 = i2.
RECURSIVE OpcodesFrom(_, _, _)
OpcodesFrom(a, b, k) ==
    IF k > Len(a) THEN <<>>
    ELSE <<[tag |-> IF a[k] = b[k] THEN "equal" ELSE "replace",
            i1 |-> k - 1, i2 |-> RunEnd(a, b, k)]>>
         \o OpcodesFrom(a, b, RunEnd(a, b, k) + 1)

\* `if not codes: codes = [("equal", 0, 1, 0, 1)]`
Codes(a, b) ==
    IF OpcodesFrom(a, b, 1) = <<>> THEN <<[tag |-> "equal", i1 |-> 0, i2 |-> 1]>>
    ELSE OpcodesFrom(a, b, 1)

\* The leading lines all kept as context
TrimFirstKeepsAll(codes) == codes
\* get_grouped_opcodes: a leading equal block keeps its last n lines
TrimFirst(codes) ==
    IF codes[1].tag = "equal"
    THEN [codes EXCEPT ![1].i1 = Max(@, codes[1].i2 - ContextLines)]
    ELSE codes

\* a trailing equal block keeps its first n lines
TrimLast(codes) ==
    IF codes[Len(codes)].tag = "equal"
    THEN [codes EXCEPT ![Len(codes)].i2 = Min(@, codes[Len(codes)].i1 + ContextLines)]
    ELSE codes

\* the loop of get_grouped_opcodes from code k on, with the group collected so
\* far: an equal block longer than 2n ends the group and starts the next
RECURSIVE GroupFrom(_, _, _)
GroupFrom(codes, k, group) ==
    IF k > Len(codes)
    THEN IF group # <<>> /\ ~(Len(group) = 1 /\ group[1].tag = "equal")
         THEN <<group>> ELSE <<>>
    ELSE IF codes[k].tag = "equal" /\ codes[k].i2 - codes[k].i1 > 2 * ContextLines
    THEN <<Append(group, [codes[k] EXCEPT
                            !.i2 = Min(@, codes[k].i1 + ContextLines)])>>
         \o GroupFrom(codes, k + 1,
                      <<[codes[k] EXCEPT !.i1 = Max(@, codes[k].i2 - ContextLines)]>>)
    ELSE GroupFrom(codes, k + 1, Append(group, codes[k]))

GroupedOpcodes(a, b) == GroupFrom(TrimLast(TrimFirst(Codes(a, b))), 1, <<>>)

\* _format_range_unified(start, stop)
FormatRange(start, stop) ==
    IF stop - start = 1 THEN IntText(start + 1)
    ELSE IF stop - start = 0 THEN IntText(start) \o <<",">> \o IntText(0)
    ELSE IntText(start + 1) \o <<",">> \o IntText(stop - start)

\* '@@ -{} +{} @@'
HunkHeader(group) ==
    <<"@", "@", " ", "-">> \o FormatRange(group[1].i1, group[Len(group)].i2)
    \o <<" ", "+">> \o FormatRange(group[1].i1, group[Len(group)].i2) \o <<" ", "@", "@">>

\* the lines i1+1 .. i2 of xs, each behind the mark
Marked(mark, xs, i1, i2) == [k \in 1..(i2 - i1) |-> <<mark>> \o xs[i1 + k]]

\* the lines unified_diff yields for one opcode
OpcodeLines(a, b, c) ==
    IF c.tag = "equal" THEN Marked(" ", a, c.i1, c.i2)
    ELSE Marked("-", a, c.i1, c.i2) \o Marked("+", b, c.i1, c.i2)

RECURSIVE GroupLines(_, _, _, _)
GroupLines(a, b, group, k) ==
    IF k > Len(group) THEN <<>>
    ELSE OpcodeLines(a, b, group[k]) \o GroupLines(a, b, group, k + 1)

RECURSIVE HunksFrom(_, _, _, _)
HunksFrom(a, b, groups, k) ==
    IF k > Len(groups) THEN <<>>
    ELSE <<HunkHeader(groups[k])>> \o GroupLines(a, b, groups[k], 1)
         \o HunksFrom(a, b, groups, k + 1)

\* difflib.unified_diff(a, b, lineterm="", n=3): the two file lines, with no
\* file names, before the first hunk
UnifiedDiff(a, b) ==
    IF GroupedOpcodes(a, b) = <<>> THEN <<>>
    ELSE <<<<"-", "-", "-", " ">>, <<"+", "+", "+", " ">>>> \o HunksFrom(a, b, GroupedOpcodes(a, b), 1)

\* `if not group.startswith(("---", "+++"))`
KeptLine(line) == ~StartsWith(line, <<"-", "-", "-">>) /\ ~StartsWith(line, <<"+", "+", "+">>)

\* diff_yaml(path, original_content, data, yaml_instance), new_content being
\* what yaml_instance.dump(data, stream) wrote
DiffYamlText(p, original_content, new_content) ==
    IF original_content = new_content THEN <<>>
    ELSE Join(<<<<"-", "-", "-", " ">> \o p, <<"+", "+", "+", " ">> \o p>>
              \o SelectSeq(UnifiedDiff(SplitLines(original_content),
                                       SplitLines(new_content)), KeptLine))

\* The number of lines of the files compared
MaxLines == 9
\* The number of lines the update replaced
MaxChanged == 2

\* line k of the file, as it was and as the update left it
OldLine(k) == <<"k">> \o IntText(k) \o <<":", " ", "0">>
NewLine(k) == <<"k">> \o IntText(k) \o <<":", " ", "1">>

\* a file of n lines, with or without the line feed after its last line
OriginalText(n, nl) ==
    Join([k \in 1..n |-> OldLine(k)]) \o (IF nl THEN <<"\n">> ELSE <<>>)
\* the serialization of the document after the lines in S were replaced
DumpedText(n, S) ==
    Join([k \in 1..n |-> IF k \in S THEN NewLine(k) ELSE OldLine(k)]) \o <<"\n">>

InitDiff ==
    /\ IdleMain
    /\ op = "diff_yaml"
    /\ status = "running"
    /\ err = NoErr
    /\ \E n \in 1..MaxLines : \E S \in SUBSET (1..n) : \E nl \in BOOLEAN :
          /\ Cardinality(S) <= MaxChanged
          /\ content = OriginalText(n, nl)
          /\ dumped = DumpedText(n, S)
    /\ diff_path = PathName(1)
    /\ diff = <<>>
    /\ args = <<>> /\ git = <<>> /\ commands = <<>> /\ sha = <<>>
    /\ entries = <<>> /\ indent = NoIndent
    /\ data = NullV /\ data0 = NullV
    /\ keys = <<>> /\ values = <<>> /\ i = 0 /\ changes = <<>> /\ last = NoLast
    /\ image_name = <<>> /\ new_tag = <<>> /\ existing = NullV /\ coerced = NullV

\* diff_yaml(path, original_content, data, yaml_instance)
DiffYaml ==
    /\ op = "diff_yaml" /\ status = "running"
    /\ diff' = DiffYamlText(diff_path, content, dumped)
    /\ status' = "done"
    /\ UNCHANGED mainVars
    /\ UNCHANGED <<diff_path, args, git, commands, sha>>
    /\ UNCHANGED <<op, err, data, data0, keys, values, i, changes, last, image_name,
                   new_tag, existing, coerced, content, entries, indent, dumped>>

NextDiff == DiffYaml

SpecDiff == InitDiff /\ [][NextDiff]_vars

-----------------------------------------------------------------------------
(* Properties of diff_yaml *)

DiffDone == op = "diff_yaml" /\ status = "done"

\* where the lines of the text returned begin
LineStarts == {1} \cup {k + 1 : k \in {j \in 1..Len(diff) : diff[j] = "\n"}}
\* the line that begins at character k
LineAt(k) ==
    SubSeq(diff, k,
           (CHOOSE e \in k..(Len(diff) + 1) :
               /\ e = Len(diff) + 1 \/ diff[e] = "\n"
               /\ \A j \in k..(e - 1) : diff[j] # "\n") - 1)
\* the lines of the text returned
DiffLines ==
    [n \in 1..Cardinality(LineStarts) |->
        LineAt(CHOOSE k \in LineStarts :
                  Cardinality({j \in LineStarts : j < k}) = n - 1)]
\* its lines after the two file lines
DiffBody == {DiffLines[k] : k \in 3..Len(DiffLines)}
\* the numbers of the lines that differ between the original and the dump
ChangedLines ==
    {k \in 1..Len(SplitLines(content)) : SplitLines(content)[k] # SplitLines(dumped)[k]}

-----------------------------------------------------------------------------
(* git_ops.py: commit_and_push *)

GitErr == [type |-> "GitError", msg |-> "git failed"]

\* The exit status of the n-th git command of the run
ReturnCode(g, n) == IF g.fails = n THEN 1 ELSE 0

\* The exit status never looked at
RaisesNever(check, returncode) == FALSE
\* _run: `if check and result.returncode != 0: raise GitError(...)`
Raises(check, returncode) == check /\ returncode # 0

\* the commit messages, branches and outputs of `git rev-parse HEAD` tried
GitMessage == <<"c", "h", "o", "r", "e", ":", " ", "u", "p", "d", "a", "t", "e">>
GitBranches == {<<"m", "a", "i", "n">>, <<"u", "p", "d", "a", "t", "e", "/", "x">>}
RevParseOutputs == {<<"a", "b", "c", "1", "2", "3", "\n">>, <<" ", "a", "b", "c", "1", "2", "3", " ", "\n">>, <<"a", "b", "c", "1", "2", "3">>}

\* the lists of at most n files
FileLists(n) == UNION {[1..m -> {PathName(k) : k \in 1..n}] : m \in 0..n}

InitGit ==
    /\ IdleMain
    /\ op = "commit_and_push"
    /\ status = "add"
    /\ err = NoErr
    /\ i = 0
    /\ \E fl \in FileLists(MaxFiles) : \E b \in GitBranches :
          /\ args = [files |-> fl, message |-> GitMessage, branch |-> b]
          /\ \E k \in 0..(Len(fl) + 3) : \E out \in RevParseOutputs :
                git = [fails |-> k, stdout |-> out]
    /\ commands = <<>>
    /\ sha = <<>>
    /\ diff_path = <<>> /\ diff = <<>>
    /\ data = NullV /\ data0 = NullV
    /\ keys = <<>> /\ values = <<>> /\ changes = <<>> /\ last = NoLast
    /\ Idle

\* _run(args) as the next git command: the command is run; GitError when it
\* is checked and exits non-zero, the position `then` otherwise
RunGit(argv, then) ==
    /\ commands' = Append(commands, argv)
    /\ IF Raises(TRUE, ReturnCode(git, Len(commands) + 1))
       THEN status' = "error" /\ err' = GitErr
       ELSE status' = then /\ err' = err

\* `for f in files: _run(["add", f])`, one iteration
GitAdd ==
    /\ op = "commit_and_push" /\ status = "add" /\ i < Len(args.files)
    /\ RunGit(<<<<"a", "d", "d">>, args.files[i + 1]>>, "add")
    /\ i' = IF status' = "error" THEN i ELSE i + 1
    /\ UNCHANGED mainVars
    /\ UNCHANGED <<diff_path, diff, args, git, sha>>
    /\ UNCHANGED <<op, data, data0, keys, values, changes, last, image_name,
                   new_tag, existing, coerced, content, entries, indent, dumped>>

\* _run(["commit", "-m", message])
GitCommit ==
    /\ op = "commit_and_push" /\ status = "add" /\ i = Len(args.files)
    /\ RunGit(<<<<"c", "o", "m", "m", "i", "t">>, <<"-", "m">>, args.message>>, "rev-parse")
    /\ UNCHANGED mainVars
    /\ UNCHANGED <<diff_path, diff, args, git, sha>>
    /\ UNCHANGED <<op, data, data0, keys, values, i, changes, last, image_name,
                   new_tag, existing, coerced, content, entries, indent, dumped>>

\* result = _run(["rev-parse", "HEAD"]); sha = result.stdout.strip()
GitRevParse ==
    /\ op = "commit_and_push" /\ status = "rev-parse"
    /\ RunGit(<<<<"r", "e", "v", "-", "p", "a", "r", "s", "e">>, <<"H", "E", "A", "D">>>>, "push")
    /\ sha' = IF status' = "error" THEN sha ELSE Strip(git.stdout)
    /\ UNCHANGED mainVars
    /\ UNCHANGED <<diff_path, diff, args, git>>
    /\ UNCHANGED <<op, data, data0, keys, values, i, changes, last, image_name,
                   new_tag, existing, coerced, content, entries, indent, dumped>>

\* _run(["push", "origin", branch]); return sha
GitPush ==
    /\ op = "commit_and_push" /\ status = "push"
    /\ RunGit(<<<<"p", "u", "s", "h">>, <<"o", "r", "i", "g", "i", "n">>, args.branch>>, "done")
    /\ UNCHANGED mainVars
    /\ UNCHANGED <<diff_path, diff, args, git, sha>>
    /\ UNCHANGED <<op, data, data0, keys, values, i, changes, last, image_name,
                   new_tag, existing, coerced, content, entries, indent, dumped>>

NextGit == GitAdd \/ GitCommit \/ GitRevParse \/ GitPush

SpecGit == InitGit /\ [][NextGit]_vars

-----------------------------------------------------------------------------
(* Properties of commit_and_push *)

\* the git commands of a complete call, in the order the claim gives
CommandsInOrder ==
    [k \in 1..Len(args.files) |-> <<<<"a", "d", "d">>, args.files[k]>>]
    \o <<<<<<"c", "o", "m", "m", "i", "t">>, <<"-", "m">>, args.message>>, <<<<"r", "e", "v", "-", "p", "a", "r", "s", "e">>, <<"H", "E", "A", "D">>>>,
         <<<<"p", "u", "s", "h">>, <<"o", "r", "i", "g", "i", "n">>, args.branch>>>>

\* C25: the git commands commit_and_push has run are at every moment the first
\* ones of: add each file in list order, commit, rev-parse HEAD, push to the
\* branch.  The command that exits non-zero is the last one run: the call
\* raises GitError there and runs nothing more.  A call that returns has run
\* them all and returns the output of rev-parse without surrounding blanks.
C25_CommitAndPushOrder ==
    /\ [](op = "commit_and_push"
          => /\ Len(commands) <= Len(CommandsInOrder)
             /\ commands = SubSeq(CommandsInOrder, 1, Len(commands))
             /\ (git.fails \in 1..Len(commands))
                  => /\ status = "error" /\ err = GitErr
                     /\ Len(commands) = git.fails
             /\ status = "error" => git.fails = Len(commands)
             /\ status = "done"
                  => /\ commands = CommandsInOrder
                     /\ sha = Strip(git.stdout))
    /\ [][op = "commit_and_push" => status \notin {"error", "done"}]_vars

\* two files added, the commit failed: nothing was pushed
C25_Witness ==
    /\ op = "commit_and_push" /\ status = "error" /\ err = GitErr
    /\ Len(args.files) = 2
    /\ Len(commands) = 3
    /\ commands[3] = <<<<"c", "o", "m", "m", "i", "t">>, <<"-", "m">>, args.message>>
    /\ \A k \in 1..Len(commands) : commands[k][1] # <<"p", "u", "s", "h">>

-----------------------------------------------------------------------------
(* The frame of update_image_tags *)

\* the keys of a mapping, in order (a sequence has the empty key throughout)
KeysOf(node) == [j \in 1..Len(node.items) |-> node.items[j].k]

\* P is the place of the value under tag_key of a node that matches
TagOfMatching(d, P, name_key, tag_key) ==
    /\ P # <<>>
    /\ MatchesAt(d, SubSeq(P, 1, Len(P) - 1), name_key, tag_key)
    /\ GetPos(d, SubSeq(P, 1, Len(P) - 1)).items[P[Len(P)]].k = tag_key

\* C26: update_image_tags changes nothing but the values under `tag` of
\* matching Helm-style nodes and under `newTag` of matching Kustomize-style
\* nodes: every mapping keeps its keys in their order, every sequence its
\* length and the order of its items, and every other scalar its value (so a
\* node that does not match keeps its tag).
C26_ImageTagsFrame ==
    ImageDone
    => /\ PosSet(data) = PosSet(data0)
       /\ \A P \in PosSet(data0) :
             /\ IsContainer(GetPos(data0, P))
                  => /\ GetPos(data, P).kind = GetPos(data0, P).kind
                     /\ KeysOf(GetPos(data, P)) = KeysOf(GetPos(data0, P))
             /\ (/\ IsScalar(GetPos(data0, P))
                 /\ ~TagOfMatching(data0, P, <<"r", "e", "p", "o", "s", "i", "t", "o", "r", "y">>, <<"t", "a", "g">>)
                 /\ ~TagOfMatching(data0, P, <<"n", "a", "m", "e">>, <<"n", "e", "w", "T", "a", "g">>))
                  => GetPos(data, P) = GetPos(data0, P)

\* the tag of ghcr.io/org/app was replaced; the tag of ghcr.io/org/otherapp
\* beside it, the repositories and the items of the sequences are as before
C26_Witness ==
    /\ ImageDone
    /\ image_name = <<"a", "p", "p">>
    /\ HoldsAt(data0, <<"s", "e", "r", "v", "i", "c", "e", "s", ".", "a", "p", "i", ".", "i", "m", "a", "g", "e", ".", "t", "a", "g">>, StrV(<<"v", "1">>))
    /\ HoldsAt(data, <<"s", "e", "r", "v", "i", "c", "e", "s", ".", "a", "p", "i", ".", "i", "m", "a", "g", "e", ".", "t", "a", "g">>, StrV(<<"v", "2">>))
    /\ HoldsAt(data0, <<"s", "e", "r", "v", "i", "c", "e", "s", ".", "w", "e", "b", ".", "i", "m", "a", "g", "e", ".", "t", "a", "g">>, StrV(<<"v", "1">>))
    /\ HoldsAt(data, <<"s", "e", "r", "v", "i", "c", "e", "s", ".", "w", "e", "b", ".", "i", "m", "a", "g", "e", ".", "t", "a", "g">>, StrV(<<"v", "1">>))
    /\ HoldsAt(data, <<"s", "e", "r", "v", "i", "c", "e", "s", ".", "a", "p", "i", ".", "i", "m", "a", "g", "e", ".", "r", "e", "p", "o", "s", "i", "t", "o", "r", "y">>, StrV(<<"g", "h", "c", "r", ".", "i", "o", "/", "o", "r", "g", "/", "a", "p", "p">>))
    /\ Len(GetPos(data, <<3>>).items) = 2

-----------------------------------------------------------------------------
(* Two calls in a row: update_keys or update_image_tags called a second time
   with the arguments of the first call, on the document the first call left *)

\* image: {repository: ghcr.io/org/app, tag: 1.5}
FloatTagDocs == {MapV(<<E(<<"i", "m", "a", "g", "e">>, Helm(StrV(<<"g", "h", "c", "r", ".", "i", "o", "/", "o", "r", "g", "/", "a", "p", "p">>), FloatV(15)))>>)}

InitTwice ==
    /\ IdleMain /\ IdleTools
    /\ status = "running"
    /\ err = NoErr
    /\ \/ /\ op = "update_keys"
          /\ \E f \in KeysFamilies : \E n \in 0..MaxPairs :
                /\ data = f.doc
                /\ keys \in [1..n -> f.paths]
                /\ values \in [1..n -> f.texts]
          /\ image_name = <<>> /\ new_tag = <<>>
       \/ /\ op = "update_image_tags"
          /\ data \in ImageDocs \cup FloatTagDocs
          /\ image_name \in ImageNames
          /\ new_tag \in NewTags \cup {<<"n", "a", "n">>}
          /\ keys = <<>> /\ values = <<>>
    /\ data0 = data
    /\ i = 0
    /\ changes = <<>>
    /\ last = NoLast
    /\ existing = NullV /\ coerced = NullV
    /\ content = <<>> /\ entries = <<>> /\ indent = NoIndent /\ dumped = <<>>

\* the call of the function op names, on document d with the arguments drawn
CallOn(d) ==
    IF op = "update_keys" THEN UpdateKeys(d, keys, values)
    ELSE UpdateImages(d, image_name, new_tag)

\* changes = update_keys(data, keys, values), or
\* changes = update_image_tags(data, image_name, new_tag)
FirstCall ==
    /\ status = "running" /\ op \in {"update_keys", "update_image_tags"} /\ i = 0
    /\ data' = CallOn(data).data
    /\ changes' = CallOn(data).changes
    /\ err' = CallOn(data).err
    /\ status' = IF CallOn(data).err = NoErr THEN "called" ELSE "error"
    /\ i' = 1
    /\ UNCHANGED <<mainVars, toolVars>>
    /\ UNCHANGED <<op, data0, keys, values, last, image_name, new_tag,
                   existing, coerced, content, entries, indent, dumped>>

\* the same call once more, on the document as the first call left it
SecondCall ==
    /\ status = "called" /\ i = 1
    /\ data' = CallOn(data).data
    /\ changes' = CallOn(data).changes
    /\ err' = CallOn(data).err
    /\ status' = IF CallOn(data).err = NoErr THEN "again" ELSE "error"
    /\ i' = 2
    /\ UNCHANGED <<mainVars, toolVars>>
    /\ UNCHANGED <<op, data0, keys, values, last, image_name, new_tag,
                   existing, coerced, content, entries, indent, dumped>>

NextTwice == FirstCall \/ SecondCall

SpecTwice == InitTwice /\ [][NextTwice]_vars

-----------------------------------------------------------------------------
(* Properties of two calls in a row *)

\* position P is Q or lies above Q
PosPrefix(P, Q) == Len(P) <= Len(Q) /\ SubSeq(Q, 1, Len(P)) = P

\* every pair of the call resolves in the document as it was before the first
\* call, and no pair addresses the entry of another pair or an entry inside it
PairsApart ==
    /\ \A k \in 1..NumPairs : UpdatePair(data0, keys[k], values[k]).err = NoErr
    /\ \A j, k \in 1..NumPairs :
          j # k => ~PosPrefix(UpdatePair(data0, keys[j], values[j]).pos,
                              UpdatePair(data0, keys[k], values[k]).pos)

\* the first call stored no NaN
NoNaNStored == \A j \in 1..Len(changes) : ~IsNaN(changes[j].new)

\* the second call returned an empty change list and left the document as it was
SecondCallIdle == status' = "again" /\ changes' = <<>> /\ data' = data

\* C27 (as stated): for every document and every argument list, the second of
\* two calls of update_keys (that succeeded) or of update_image_tags with the
\* same arguments returns an empty change list and leaves the document
\* unchanged.
C27_SecondCallChangesNothing == [][status = "called" => SecondCallIdle]_vars

\* C27 (amended): the second call returns an empty change list and leaves the
\* document unchanged when the first call stored no NaN and, for update_keys,
\* its key paths address entries none of which is, or lies inside, the entry
\* of another pair; this includes first calls that changed the type of a
\* value through the fallback of the coercion.
C27_SecondCallOfApartPairs ==
    [][(status = "called" /\ NoNaNStored /\ (op = "update_keys" => PairsApart))
         => SecondCallIdle]_vars

\* x: 1 became the string abc and on: true became false in the first call; the
\* second call found nothing to change
C27_Witness ==
    /\ status = "again" /\ op = "update_keys"
    /\ keys = <<<<"x">>, <<"o", "n">>>> /\ values = <<<<"a", "b", "c">>, <<"a", "b", "c">>>>
    /\ HoldsAt(data0, <<"x">>, IntV(1)) /\ HoldsAt(data, <<"x">>, StrV(<<"a", "b", "c">>))
    /\ HoldsAt(data0, <<"o", "n">>, BoolV(TRUE)) /\ HoldsAt(data, <<"o", "n">>, BoolV(FALSE))
    /\ changes = <<>>

-----------------------------------------------------------------------------
(* Properties of main: the changed files *)

\* dump_yaml(data, file_path, ...) has been called on the path
Written(path) ==
    \E j \in 1..Len(calls) : calls[j].op = "dump_yaml" /\ calls[j].y = path
\* the paths of changed_files
ChangedSet == {changed_files[k] : k \in 1..Len(changed_files)}

\* C28: when main writes its outputs, changed_files holds exactly the listed
\* files whose update returned at least one change, in the order of the
\* input; `changed` is "true" exactly when that list is not empty; exactly
\* those files have been written back when the run is not a dry run, and they
\* are the files handed to commit_and_push.
C28_ChangedFilesExact ==
    (MainDone /\ Parsed /\ outputs # <<>>)
    => /\ changed_files = ChangedPathsFrom(1)
       /\ HasOutput("changed", IF changed_files # <<>> THEN <<"t", "r", "u", "e">> ELSE <<"f", "a", "l", "s", "e">>)
       /\ \A k \in 1..NumFiles :
             Written(inputs.files[k])
             <=> (~inputs.dry_run /\ inputs.files[k] \in ChangedSet)
       /\ \A j \in 1..Len(calls) :
             calls[j].op = "git_ops.commit_and_push" => calls[j].x = changed_files

\* main has returned 1 in the iteration of a listed file after the first, of
\* a run that is not a dry run: the file does not exist or its update failed
AbortedAtLaterFile ==
    /\ MainDone /\ Parsed /\ ~inputs.dry_run
    /\ rc = 1 /\ 0 < file_no /\ file_no < NumFiles
    /\ \/ Logged("error", "File not found", inputs.files[file_no + 1])
       \/ Logged("error", "Update failed", inputs.files[file_no + 1])

\* C29: when main aborts at a later file of a run over several files that is
\* not a dry run, every earlier file that had changes has been written, no
\* output has been set and nothing has been committed.
C29_AbortKeepsEarlierWrites ==
    AbortedAtLaterFile
    => /\ \A k \in 1..file_no :
             FileYields(inputs, ListedFile(k)).changes # <<>>
             => Written(inputs.files[k])
       /\ outputs = <<>>
       /\ \A j \in 1..Len(calls) : calls[j].op # "git_ops.commit_and_push"

====
